---- MODULE Spec2Model ----
(***************************************************************************)
(* Verification model of reruin/sharelist-smb: the SMB command dispatcher  *)
(* (lib/smb/handler.js), the preflight of the command handlers             *)
(* (lib/smb/cmd/...), and the read-only sharelist backend                  *)
(* (lib/backends/sharelist/...).                                           *)
(***************************************************************************)
EXTENDS Integers, Sequences, FiniteSets, TLC

VARIABLES
  msgs,      \* message id -> the decoded message and the dispatcher's progress on it
  sendLog,   \* message ids in the order connection.sendRawMessage was called
  arrived,   \* message ids in the order handleRequest was called
  exited,    \* process.exit(1) was called by a domain error handler
  mutCalls,  \* the mutations called on the sharelist backend, in call order
  backend,   \* the state of the sharelist share: its files and fileCount
  hreq,      \* the request a command handler was invoked with
  hpc,       \* the handler's position: start | tick | op | each | done
  hresult,   \* the result passed (or scheduled to be passed) to the continuation
  hops,      \* the Tree and File operations the handler invoked, in order
  hconts,    \* times the handler invoked its continuation
  heach,     \* DELETE: the file.delete calls async.each waits for, and their outcomes
  hback,     \* what the awaited operation of the backend called back with
  file,      \* the opened FSFile: stats, fd, rectifier (a place in rects, 0 for null)
  rects,     \* every Rectifier constructed, in order of construction
  reads,     \* the calls of readFile on the file, in call order
  ntlm,      \* one NTLM exchange: its inputs, the response and the verdict on it
  syserr,    \* one system error, the message given with it, and the SMBError made
  share,     \* a sharelist share: its fileCount and the FSFile objects constructed
  reply,     \* one AndX chain: its commands, the results stashed, the bytes sent
  waiters,   \* the callbacks passed to when of Rectifier 1, in order, and their calls
  tcalls     \* the calls of FSTree.open and FSTree.list, in call order

dispVars == <<msgs, sendLog, arrived>>

mutVars == <<mutCalls, backend>>

handlerVars == <<hreq, hpc, hresult, hops, hconts, heach, hback>>

readVars == <<file, rects, reads>>

ntlmVars == <<ntlm>>

errVars == <<syserr>>

shareVars == <<share>>
encVars == <<reply>>
taskVars == <<waiters>>
treeVars == <<tcalls>>

vars == <<dispVars, exited, mutVars, handlerVars, readVars, ntlmVars, errVars, shareVars, encVars, taskVars, treeVars>>

----------------------------------------------------------------------------
(* Bounds *)

\* longest AndX chain of a message of the single-message specification
MaxChain == 3
\* longest AndX chain of a message of the two-message connection specification
ConnMaxChain == 1
\* number of mutations called on the backend
MaxCalls == 2
\* most files a DELETE pattern matches
MaxFiles == 2
\* size of the remote file, in bytes
FileSize == 3
\* number of readFile calls on the opened file
MaxReads == 2
\* most bytes one read asks for
MaxLen == 2
\* most bytes in one chunk of the upstream
MaxChunk == 2
\* largest offset in the destination buffer a read is given
MaxOffset == 1
\* size of the large file, in MiB
FlowSize == 4

----------------------------------------------------------------------------
(* NTSTATUS values (lib/ntstatus.js); STATUS_SUCCESS is the only falsy one. *)

STATUS_SUCCESS == "STATUS_SUCCESS"
STATUS_MORE_PROCESSING_REQUIRED == "STATUS_MORE_PROCESSING_REQUIRED"
STATUS_SMB_BAD_COMMAND == "STATUS_SMB_BAD_COMMAND"
STATUS_NOT_IMPLEMENTED == "STATUS_NOT_IMPLEMENTED"
STATUS_SMB_BAD_TID == "STATUS_SMB_BAD_TID"
STATUS_SMB_BAD_FID == "STATUS_SMB_BAD_FID"
STATUS_NOT_SUPPORTED == "STATUS_NOT_SUPPORTED"
STATUS_UNSUCCESSFUL == "STATUS_UNSUCCESSFUL"
STATUS_FILE_IS_A_DIRECTORY == "STATUS_FILE_IS_A_DIRECTORY"
STATUS_NO_SUCH_FILE == "STATUS_NO_SUCH_FILE"

\* a non-zero status field found in the header of a request
STATUS_IN_REQUEST == "STATUS_IN_REQUEST"

\* utils.EMPTY_BUFFER
EMPTY_BUFFER == "EMPTY_BUFFER"

----------------------------------------------------------------------------
(* The dispatcher: lib/smb/handler.js *)

\* What the lookups of a command id give: a name in SMB.COMMAND_TO_STRING and a
\* handler in cmdHandlers ("handled"), a name and no handler ("nohandler"), or
\* no name at all ("unknown").
CmdKinds == {"handled", "unknown", "nohandler"}

\* a command as message.decode leaves it
RequestCmd(kind) ==
  [kind |-> kind, params |-> "REQ_PARAMS", data |-> "REQ_DATA",
   wordCount |-> "REQ_WORDCOUNT", byteCount |-> "REQ_BYTECOUNT"]

\* the handler invoked its continuation with no result
NoResult ==
  [status |-> "none", params |-> "none", data |-> "none",
   wordCount |-> "none", byteCount |-> "none"]

\* The results a handler passes to its continuation: no result, a success with
\* or without a wordCount override, MORE_PROCESSING_REQUIRED, and failures
\* (which the handlers build with empty params and data).
HandlerResults ==
  { NoResult,
    [status |-> STATUS_SUCCESS, params |-> "RES_PARAMS", data |-> "RES_DATA",
     wordCount |-> "none", byteCount |-> "none"],
    [status |-> STATUS_SUCCESS, params |-> "RES_PARAMS_EXT", data |-> EMPTY_BUFFER,
     wordCount |-> "0x2a", byteCount |-> "none"],
    [status |-> STATUS_MORE_PROCESSING_REQUIRED, params |-> "RES_PARAMS_MPR",
     data |-> "RES_DATA_MPR", wordCount |-> "none", byteCount |-> "none"],
    [status |-> STATUS_SMB_BAD_TID, params |-> EMPTY_BUFFER, data |-> EMPTY_BUFFER,
     wordCount |-> "none", byteCount |-> "none"],
    [status |-> STATUS_NOT_SUPPORTED, params |-> EMPTY_BUFFER, data |-> EMPTY_BUFFER,
     wordCount |-> "none", byteCount |-> "none"] }

\* the {status, message} object the dispatcher itself passes to the callback
DispatcherErr(status) ==
  [status |-> status, params |-> "none", data |-> "none",
   wordCount |-> "none", byteCount |-> "none"]

\* the per-item callback called with no argument
NoErr == DispatcherErr("noerr")

\* a message handed to handleRequest, before anything ran
NewMsg(kinds, hdrStatus, lenOk) ==
  [commands  |-> [i \in 1..Len(kinds) |-> RequestCmd(kinds[i])],
   status    |-> hdrStatus,   \* msg.header.status
   reply     |-> FALSE,       \* msg.header.flags.reply
   processed |-> FALSE,       \* msg.processed
   lenOk     |-> lenOk,       \* msgBuf.length within [SMB_MIN_LENGTH, SMB_MAX_LENGTH]
   pc        |-> "new",       \* new | running | done | rejected
   completed |-> 0,           \* eachSeries: number of commands completed
   finished  |-> FALSE,       \* eachSeries: the final callback was called
   inflight  |-> {},          \* commands whose handler runs and has not continued
   started   |-> <<>>,        \* history: commands whose handler was started
   conts     |-> <<>>,        \* history: per-command callback invocations
   resp      |-> <<>>,        \* history: messages passed to message.encode
   cbCalls   |-> 0,           \* times the completion callback cb was handed on
   fault     |-> "none"]      \* none | thrown (to handleRequest's caller) | domain

ChainsUpTo(n) == UNION { [1..k -> CmdKinds] : k \in 1..n }

MsgInputs(n) ==
  { NewMsg(kinds, st, ok) :
      kinds \in ChainsUpTo(n), st \in {STATUS_SUCCESS, STATUS_IN_REQUEST},
      ok \in BOOLEAN }

\* sendResponse: set the reply flags and the status, encode, hand the buffer and
\* cb to connection.sendRawMessage
sendResponse(mr, status) ==
  LET m1 == [mr EXCEPT !.reply = TRUE, !.status = status]
  IN [m1 EXCEPT !.resp = Append(@, [status |-> m1.status, reply |-> m1.reply,
                                     commands |-> m1.commands]),
                !.cbCalls = @ + 1]

\* Final with the error's status dropped: the response carries header.status
FinalDropsErrStatus(mr, err) ==
  LET m1 == [mr EXCEPT !.finished = TRUE, !.pc = "done"]
  IN IF m1.processed /\ err = NoErr THEN [m1 EXCEPT !.cbCalls = @ + 1]
     ELSE sendResponse(m1, IF m1.status # STATUS_SUCCESS THEN m1.status
                           ELSE STATUS_SUCCESS)

\* Final without the return behind cb() of a processed message
FinalWithoutReturn(mr, err) ==
  LET m1 == [mr EXCEPT !.finished = TRUE, !.pc = "done"]
      m2 == IF err = NoErr /\ m1.processed THEN [m1 EXCEPT !.cbCalls = @ + 1] ELSE m1
  IN IF err # NoErr THEN sendResponse(m2, err.status)
     ELSE sendResponse(m2, IF m2.status # STATUS_SUCCESS THEN m2.status
                           ELSE STATUS_SUCCESS)

\* the final callback of async.eachSeries in _handleRequest
Final(mr, err) ==
  LET m1 == [mr EXCEPT !.finished = TRUE, !.pc = "done"]
  IN IF err # NoErr THEN sendResponse(m1, err.status)
     ELSE IF m1.processed THEN [m1 EXCEPT !.cbCalls = @ + 1]
     ELSE sendResponse(m1, IF m1.status # STATUS_SUCCESS THEN m1.status
                           ELSE STATUS_SUCCESS)

\* eachSeries, the per-item callback called with an error: the final callback
\* runs once and no further item is iterated
CallbackErr(mr, err) ==
  IF mr.finished THEN mr ELSE Final(mr, err)

\* the iterator function of _handleRequest on command i; inDomain tells whether
\* it runs inside the continuation of an earlier handler (in its domain)
Iterator(mr, i, inDomain) ==
  LET kind == mr.commands[i].kind
      called(st) == [mr EXCEPT !.conts = Append(@, [i |-> i, r |-> DispatcherErr(st)])]
  IN CASE kind = "unknown" ->
            \* callback(BAD_COMMAND) without a return: the lookup of the handler
            \* gives none, and building the message of the else branch evaluates
            \* command.toUpperCase() with command undefined
            [CallbackErr(called(STATUS_SMB_BAD_COMMAND), DispatcherErr(STATUS_SMB_BAD_COMMAND))
               EXCEPT !.fault = IF inDomain THEN "domain" ELSE "thrown"]
       [] kind = "nohandler" ->
            CallbackErr(called(STATUS_NOT_IMPLEMENTED), DispatcherErr(STATUS_NOT_IMPLEMENTED))
       [] OTHER ->
            [mr EXCEPT !.started = Append(@, i), !.inflight = @ \cup {i}]

\* eachSeries, the per-item callback called without an error
Callback(mr) ==
  IF mr.finished THEN mr
  ELSE LET m1 == [mr EXCEPT !.completed = @ + 1]
       IN IF m1.completed >= Len(m1.commands) THEN Final(m1, NoErr)
          ELSE Iterator(m1, m1.completed + 1, TRUE)

\* HandlerContinuation with MORE_PROCESSING_REQUIRED taken for a failure
ContinuationFailsOnMore(mr, i, r) ==
  LET m1 == [mr EXCEPT !.conts = Append(@, [i |-> i, r |-> r]),
                       !.inflight = @ \ {i}]
  IN IF r = NoResult THEN Callback([m1 EXCEPT !.processed = TRUE])
     ELSE IF r.status = STATUS_SUCCESS THEN
       LET c  == m1.commands[i]
           c1 == [c EXCEPT !.params = r.params,
                           !.wordCount = IF r.wordCount # "none" THEN r.wordCount ELSE @,
                           !.data = r.data,
                           !.byteCount = IF r.byteCount # "none" THEN r.byteCount ELSE @]
       IN Callback([m1 EXCEPT !.commands[i] = c1])
     ELSE CallbackErr(m1, DispatcherErr(r.status))

\* the continuation passed to the handler of command i, invoked with result r
HandlerContinuation(mr, i, r) ==
  LET m1 == [mr EXCEPT !.conts = Append(@, [i |-> i, r |-> r]),
                       !.inflight = @ \ {i}]
  IN IF r = NoResult THEN Callback([m1 EXCEPT !.processed = TRUE])
     ELSE IF r.status \in {STATUS_SUCCESS, STATUS_MORE_PROCESSING_REQUIRED} THEN
       LET c  == m1.commands[i]
           c1 == [c EXCEPT !.params = r.params,
                           !.wordCount = IF r.wordCount # "none" THEN r.wordCount ELSE @,
                           !.data = r.data,
                           !.byteCount = IF r.byteCount # "none" THEN r.byteCount ELSE @]
       IN Callback([m1 EXCEPT !.commands[i] = c1,
                              !.status = IF r.status = STATUS_MORE_PROCESSING_REQUIRED
                                         THEN r.status ELSE @])
     ELSE CallbackErr(m1, DispatcherErr(r.status))

\* async.each in place of async.eachSeries: every item is iterated at once
AllItems(mr) == [i \in 1..Len(mr.commands) |-> i]

\* eachSeries begins with the first item only
FirstItems(mr) == <<1>>

RECURSIVE IterateAll(_, _)
IterateAll(mr, items) ==
  IF items = <<>> \/ mr.finished THEN mr
  ELSE IterateAll(Iterator(mr, Head(items), FALSE), Tail(items))

\* the responses of message m that a step added, as entries of the send log
NewSends(m, old, new) == [k \in 1..(Len(new.resp) - Len(old.resp)) |-> m]

Commit(m, new) ==
  /\ msgs' = [msgs EXCEPT ![m] = new]
  /\ sendLog' = sendLog \o NewSends(m, msgs[m], new)
  /\ exited' = (exited \/ new.fault = "domain")

\* handleRequest(msgBuf, connection, server, cb)
handleRequest(m) ==
  /\ ~exited
  /\ msgs[m].pc = "new"
  /\ arrived' = Append(arrived, m)
  /\ IF ~msgs[m].lenOk
       THEN Commit(m, [msgs[m] EXCEPT !.pc = "rejected", !.cbCalls = @ + 1])
       ELSE Commit(m, IterateAll([msgs[m] EXCEPT !.pc = IF @ = "new" THEN "running" ELSE @],
                                 FirstItems(msgs[m])))

\* the handler of command i of message m invokes its continuation with r
Continue(m, i, r) ==
  /\ ~exited
  /\ i \in msgs[m].inflight
  /\ Commit(m, HandlerContinuation(msgs[m], i, r))
  /\ UNCHANGED arrived

DispInit(ids, n) ==
  /\ msgs \in [ids -> MsgInputs(n)]
  /\ sendLog = <<>>
  /\ arrived = <<>>

----------------------------------------------------------------------------
(* The mutations of the read-only sharelist backend:                        *)
(* lib/backends/sharelist/file.js and lib/backends/sharelist/tree.js        *)

\* the identifiers bound at module scope by the require lines of file.js
FileJsBindings ==
  {"util", "fs", "Path", "logger", "perflog", "async", "File", "SMBError",
   "readFile", "closeFile"}

\* the identifiers bound at module scope by the require lines of tree.js
TreeJsBindings ==
  {"util", "Path", "fs", "logger", "perflog", "async", "Tree", "FSFile",
   "SMBError", "utils", "mkdirp"}

FileMutations == {"File.write", "File.setLength", "File.delete"}

TreeMutations ==
  {"Tree.createFile", "Tree.createDirectory", "Tree.delete",
   "Tree.deleteDirectory", "Tree.rename"}

Mutations == FileMutations \cup TreeMutations

Bindings(op) == IF op \in FileMutations THEN FileJsBindings ELSE TreeJsBindings

\* the status the mutations name: ntstatus.STATUS_SMB_NO_SUPPORT
STATUS_SMB_NO_SUPPORT == "STATUS_SMB_NO_SUPPORT"

\* The function each mutation hands to process.nextTick:
\*   cb(new SMBError(ntstatus.STATUS_SMB_NO_SUPPORT))
\* Evaluating the argument reads the identifier ntstatus; where the module does
\* not bind it the read raises a ReferenceError and cb is not called.
MutationTick(call) ==
  IF "ntstatus" \in Bindings(call.op)
    THEN [call EXCEPT !.pc = "ran", !.cbCalls = @ + 1, !.cbStatus = STATUS_SMB_NO_SUPPORT]
    ELSE [call EXCEPT !.pc = "ran", !.fault = "ReferenceError"]

\* a mutation is called: all it does is schedule its function for the next tick
Mutate(op) ==
  /\ ~exited
  /\ Len(mutCalls) < MaxCalls
  /\ mutCalls' = Append(mutCalls, [op |-> op, pc |-> "scheduled", cbCalls |-> 0,
                                   cbStatus |-> "none", fault |-> "none"])
  /\ UNCHANGED <<backend, exited>>

\* the next tick runs the oldest scheduled function; a fault raised in it is
\* uncaught, reaches the error handler of the domain and ends the process
RunMutationTick ==
  /\ ~exited
  /\ \E k \in 1..Len(mutCalls) :
       /\ mutCalls[k].pc = "scheduled"
       /\ \A j \in 1..(k - 1) : mutCalls[j].pc # "scheduled"
       /\ LET c == MutationTick(mutCalls[k])
          IN /\ mutCalls' = [mutCalls EXCEPT ![k] = c]
             /\ exited' = (c.fault # "none")
  /\ UNCHANGED backend

\* the share as the mutations find it: one file that is open once
BackendInitial == [files |-> {"/a"}, size |-> [f \in {"/a"} |-> 1],
                   fileCount |-> [f \in {"/a"} |-> 1]]

MutInit == mutCalls = <<>> /\ backend = BackendInitial

----------------------------------------------------------------------------
(* The command handlers: lib/smb/cmd/close.js, nt_create_andx.js,           *)
(* trans2/trans2_set_fs_information.js, DELETE (unnamed/part_000) and       *)
(* READ_ANDX (unnamed/part_001)                                             *)

Handlers == {"NT_CREATE_ANDX", "READ_ANDX", "CLOSE", "DELETE", "TRANS2_SET_FILE_INFORMATION"}

\* informationLevel: below SMB.INFO_PASSTHROUGH, one of the four passthrough
\* levels of the switch, or another passthrough level
InformationLevels ==
  {"BELOW_PASSTHROUGH", "FILE_DISPOSITION_INFORMATION", "FILE_END_OF_FILE_INFORMATION",
   "FILE_ALLOCATION_INFORMATION", "FILE_RENAME_INFORMATION", "OTHER_PASSTHROUGH"}

\* the status an error of the backend carries
STATUS_ACCESS_DENIED == "STATUS_ACCESS_DENIED"

\* The request fields the handlers branch on. tidOk: server.getTree(header.tid)
\* gives a tree; fidOk: tree.getFile(fid) gives a file; lastMod: lastTimeModified
\* is 0, 0xFFFFFFFF, or a time; dataByte: the byte of FILE_DISPOSITION_INFORMATION;
\* allocZero: the allocation size is 0; sizeZero: file.size() is 0; rootFid:
\* rootDirectoryFID is 0, resolves, or resolves to nothing.
Request(h, tidOk, fidOk, level, isDir, lastMod, dataByte, allocZero, sizeZero, rootFid) ==
  [handler |-> h, tidOk |-> tidOk, fidOk |-> fidOk, level |-> level, isDir |-> isDir,
   lastMod |-> lastMod, dataByte |-> dataByte, allocZero |-> allocZero,
   sizeZero |-> sizeZero, rootFid |-> rootFid]

\* the andX offset of the request: bytes 2..3 of the command parameters
AndXOffsets == {0, 513}

\* the words maxCountOfBytesToReturn and the low word of timeoutOrMaxCountHigh
\* of a READ_ANDX request
MaxCountWords == {<<1024, 0>>, <<3, 1>>, <<0, 65535>>, <<65535, 32768>>}

\* v << 16 of a 16-bit word v: the product wrapped to a signed 32-bit integer
ShiftLeft16(v) == IF v >= 32768 THEN (v - 65536) * 65536 ELSE v * 65536

\* msg.maxCountOfBytesToReturn as the handler leaves it: maxCountHigh << 16 is
\* added unless the share is a named pipe
maxCountOfBytesToReturn(low, high, namedPipe) ==
  IF namedPipe THEN low ELSE low + ShiftLeft16(high)

\* the numbers of bytes file.read gives
ReadCounts == {0, 3, 65536, 65539}

Requests ==
  { Request("CLOSE", t, f, "BELOW_PASSTHROUGH", FALSE, lm, 0, FALSE, FALSE, "zero") :
      t \in BOOLEAN, f \in BOOLEAN, lm \in {"zero", "0xFFFFFFFF", "time"} }
  \cup
  { Request("READ_ANDX", t, f, "BELOW_PASSTHROUGH", d, "zero", 0, FALSE, FALSE, "zero")
      @@ [andXCommand |-> 255, andXOffset |-> ao, offset |-> 0,
          maxCountLow |-> w[1], maxCountHigh |-> w[2], namedPipe |-> np,
          maxCount |-> maxCountOfBytesToReturn(w[1], w[2], np)] :
      t \in BOOLEAN, f \in BOOLEAN, d \in BOOLEAN, ao \in AndXOffsets,
      w \in MaxCountWords, np \in BOOLEAN }
  \cup
  { Request("NT_CREATE_ANDX", t, FALSE, "BELOW_PASSTHROUGH", FALSE, "zero", 0, FALSE, FALSE, rf)
      @@ [andXCommand |-> 255, andXOffset |-> ao, opbatch |-> ob, extended |-> ex] :
      t \in BOOLEAN, rf \in {"zero", "resolves", "dangling"}, ao \in AndXOffsets,
      ob \in BOOLEAN, ex \in BOOLEAN }
  \cup
  { Request("DELETE", t, FALSE, "BELOW_PASSTHROUGH", FALSE, "zero", 0, FALSE, FALSE, "zero") :
      t \in BOOLEAN }
  \cup
  { Request("TRANS2_SET_FILE_INFORMATION", t, f, l, FALSE, "zero", b, a, z, "zero") :
      t \in BOOLEAN, f \in BOOLEAN, l \in InformationLevels, b \in {0, 1, 255},
      a \in BOOLEAN, z \in BOOLEAN }

Result(status, params, data) == [status |-> status, params |-> params, data |-> data]

ErrorResult(status) == Result(status, EMPTY_BUFFER, EMPTY_BUFFER)

NoHandlerResult == Result("none", "none", "none")

\* what the synchronous part of a handler decides: a result scheduled with
\* process.nextTick (pc "tick"), or an operation of the backend whose callback
\* it waits for (pc "op"), and the operations invoked on the way
Decision(pc, result, ops) == [pc |-> pc, result |-> result, ops |-> ops]

\* a variant of CloseHandle that takes 0xFFFFFFFF for a time
CloseHandleAnyTime(r) ==
  IF ~r.tidOk THEN Decision("tick", ErrorResult(STATUS_SMB_BAD_TID), <<>>)
  ELSE IF ~r.fidOk THEN Decision("tick", ErrorResult(STATUS_SMB_BAD_FID), <<>>)
  ELSE Decision("op", NoHandlerResult,
                (IF r.lastMod # "zero" THEN <<"file.setLastModifiedTime">> ELSE <<>>)
                \o <<"tree.closeFile">>)

\* close.js handle
CloseHandle(r) ==
  IF ~r.tidOk THEN Decision("tick", ErrorResult(STATUS_SMB_BAD_TID), <<>>)
  ELSE IF ~r.fidOk THEN Decision("tick", ErrorResult(STATUS_SMB_BAD_FID), <<>>)
  ELSE Decision("op", NoHandlerResult,
                (IF r.lastMod \notin {"zero", "0xFFFFFFFF"}
                   THEN <<"file.setLastModifiedTime">> ELSE <<>>)
                \o <<"tree.closeFile">>)

\* READ_ANDX handle
ReadAndxHandle(r) ==
  IF ~r.tidOk THEN Decision("tick", ErrorResult(STATUS_SMB_BAD_TID), <<>>)
  ELSE IF ~r.fidOk THEN Decision("tick", ErrorResult(STATUS_SMB_BAD_FID), <<>>)
  ELSE IF r.isDir THEN Decision("tick", ErrorResult(STATUS_FILE_IS_A_DIRECTORY), <<>>)
  ELSE IF r.maxCount < 0
    \* new Buffer(msg.maxCountOfBytesToReturn) throws a RangeError
    THEN Decision("fault", NoHandlerResult, <<>>)
  ELSE Decision("op", NoHandlerResult, <<"file.read">>)

\* nt_create_andx.js handle: rootDirectoryFID is looked up and not evaluated
NtCreateAndxHandle(r) ==
  IF ~r.tidOk THEN Decision("tick", ErrorResult(STATUS_SMB_BAD_TID), <<>>)
  ELSE Decision("op", NoHandlerResult, <<"tree.openOrCreate">>)

\* DELETE handle
DeleteHandle(r) ==
  IF ~r.tidOk THEN Decision("tick", ErrorResult(STATUS_SMB_BAD_TID), <<>>)
  ELSE Decision("op", NoHandlerResult, <<"tree.list">>)

\* Variants of Trans2SetFileInformationHandle, one for each v: "unknown"
\* answers STATUS_NOT_SUPPORTED for a passthrough level outside the switch,
\* "disposition" marks the file whatever the data byte is, "allocation"
\* truncates an empty file too, "params" gives empty params with a success.
Trans2Variant(r, v) ==
  LET success == Result(STATUS_SUCCESS,
                        IF v = "params" THEN EMPTY_BUFFER ELSE STATUS_SUCCESS,
                        EMPTY_BUFFER)
  IN IF r.level = "BELOW_PASSTHROUGH"
       THEN Decision("tick", ErrorResult(STATUS_NOT_SUPPORTED), <<>>)
     ELSE IF ~r.tidOk THEN Decision("tick", ErrorResult(STATUS_SMB_BAD_TID), <<>>)
     ELSE IF ~r.fidOk THEN Decision("tick", ErrorResult(STATUS_SMB_BAD_FID), <<>>)
     ELSE CASE r.level = "FILE_DISPOSITION_INFORMATION" ->
                 Decision("tick", success,
                          IF r.dataByte # 0 \/ v = "disposition"
                            THEN <<"file.setDeleteOnClose">> ELSE <<>>)
            [] r.level = "FILE_END_OF_FILE_INFORMATION" ->
                 Decision("op", NoHandlerResult, <<"file.setLength">>)
            [] r.level = "FILE_ALLOCATION_INFORMATION" ->
                 IF r.allocZero /\ (~r.sizeZero \/ v = "allocation")
                   THEN Decision("op", NoHandlerResult, <<"file.setLength">>)
                   ELSE Decision("tick", success, <<>>)
            [] r.level = "FILE_RENAME_INFORMATION" ->
                 Decision("op", NoHandlerResult, <<"tree.rename">>)
            [] OTHER ->
                 Decision("tick",
                          ErrorResult(IF v = "unknown" THEN STATUS_NOT_SUPPORTED
                                      ELSE STATUS_NOT_IMPLEMENTED),
                          <<>>)

Trans2UnknownNotSupported(r) == Trans2Variant(r, "unknown")

Trans2AlwaysMarks(r) == Trans2Variant(r, "disposition")

Trans2TruncatesEmpty(r) == Trans2Variant(r, "allocation")

Trans2EmptyParams(r) == Trans2Variant(r, "params")

\* trans2_set_fs_information.js handle
Trans2SetFileInformationHandle(r) ==
  IF r.level = "BELOW_PASSTHROUGH" THEN Decision("tick", ErrorResult(STATUS_NOT_SUPPORTED), <<>>)
  ELSE IF ~r.tidOk THEN Decision("tick", ErrorResult(STATUS_SMB_BAD_TID), <<>>)
  ELSE IF ~r.fidOk THEN Decision("tick", ErrorResult(STATUS_SMB_BAD_FID), <<>>)
  ELSE CASE r.level = "FILE_DISPOSITION_INFORMATION" ->
              Decision("tick", Result(STATUS_SUCCESS, STATUS_SUCCESS, EMPTY_BUFFER),
                       IF r.dataByte # 0 THEN <<"file.setDeleteOnClose">> ELSE <<>>)
         [] r.level = "FILE_END_OF_FILE_INFORMATION" ->
              Decision("op", NoHandlerResult, <<"file.setLength">>)
         [] r.level = "FILE_ALLOCATION_INFORMATION" ->
              IF r.allocZero /\ ~r.sizeZero
                THEN Decision("op", NoHandlerResult, <<"file.setLength">>)
                ELSE Decision("tick", Result(STATUS_SUCCESS, STATUS_SUCCESS, EMPTY_BUFFER), <<>>)
         [] r.level = "FILE_RENAME_INFORMATION" ->
              Decision("op", NoHandlerResult, <<"tree.rename">>)
         [] OTHER ->
              Decision("tick", ErrorResult(STATUS_NOT_IMPLEMENTED), <<>>)

HandleOf(r) ==
  CASE r.handler = "CLOSE" -> CloseHandle(r)
    [] r.handler = "READ_ANDX" -> ReadAndxHandle(r)
    [] r.handler = "NT_CREATE_ANDX" -> NtCreateAndxHandle(r)
    [] r.handler = "DELETE" -> DeleteHandle(r)
    [] OTHER -> Trans2SetFileInformationHandle(r)

\* err.status || ntstatus.STATUS_UNSUCCESSFUL
StatusOfError(outcome) ==
  IF outcome = "err_status" THEN STATUS_ACCESS_DENIED ELSE STATUS_UNSUCCESSFUL

\* what the callback of the awaited operation passes to the continuation
ResultOfOperation(r, outcome) ==
  CASE r.handler = "CLOSE" ->
         IF outcome = "ok" THEN ErrorResult(STATUS_SUCCESS) ELSE ErrorResult(STATUS_UNSUCCESSFUL)
    [] r.handler \in {"READ_ANDX", "NT_CREATE_ANDX"} ->
         ErrorResult(StatusOfError(outcome))
    [] r.handler = "DELETE" ->
         IF outcome = "ok" THEN ErrorResult(STATUS_NO_SUCH_FILE)
         ELSE ErrorResult(StatusOfError(outcome))
    [] r.level = "FILE_RENAME_INFORMATION" ->
         IF outcome = "ok" THEN ErrorResult(STATUS_SUCCESS)
         ELSE ErrorResult(StatusOfError(outcome))
    [] OTHER ->
         IF outcome = "ok" THEN Result(STATUS_SUCCESS, STATUS_SUCCESS, EMPTY_BUFFER)
         ELSE ErrorResult(StatusOfError(outcome))

Outcomes == {"ok", "err_status", "err_nostatus"}

\* data offset in response SMB (from header start)
DATA_OFFSET == 60

\* put().word8(v), .word16le(v), .word32le(v), .word64le(v), .pad(n): the bytes
\* appended, least significant first
Word8(v) == <<v % 256>>

\* a variant of Word16LE with the most significant byte first
Word16BE(v) == <<(v \div 256) % 256, v % 256>>

Word16LE(v) == <<v % 256, (v \div 256) % 256>>

Word32LE(v) == Word16LE(v % 65536) \o Word16LE((v \div 65536) % 65536)

\* a variant of Word64LE that writes the low 32 bits only
Word64Low(v) == Word32LE(v)

Word64LE(v) == Word32LE(v) \o Word32LE((v \div 65536) \div 65536)

Pad(n) == [k \in 1..n |-> 0]

\* the byte of the file at an offset
FileByte(i) == i % 256

\* the buffer of maxCount bytes after file.read wrote n bytes of the file from
\* msg.offset on to its start
FileRead(r, n) ==
  [j \in 1..r.maxCount |-> IF j <= n THEN FileByte(r.offset + j - 1) ELSE "unwritten"]

\* READ_ANDX: the result built in the callback of file.read
ReadAndxResult(r, bytesRead, buf) ==
  Result(STATUS_SUCCESS,
         Word8(r.andXCommand) \o Word8(0) \o Word16LE(r.andXOffset)
           \o Word16LE(0) \o Word16LE(0) \o Word16LE(0)
           \o Word16LE(bytesRead % 65536)        \* bytesRead & 0xffff
           \o Word16LE(DATA_OFFSET)
           \o Word16LE(bytesRead \div 65536)     \* bytesRead >> 16
           \o Pad(8),
         <<0>> \o SubSeq(buf, 1, bytesRead))

\* utils.ZERO_GUID
ZERO_GUID == Pad(16)

\* The files tree.openOrCreate gives. The times are SMB times as low and high
\* 32 bits; resourceType and the access rights are the values of SMB.FILE_TYPE_*
\* and SMB.*_ACCESS_* for the file.
Files ==
  { [fid |-> 1, createAction |-> 1, isDirectory |-> d, namedPipe |-> np,
     created |-> <<513, 1>>, accessed |-> <<514, 1>>, modified |-> <<515, 1>>,
     changed |-> <<516, 1>>, attributes |-> 32, allocationSize |-> 4096,
     dataSize |-> 65539, resourceType |-> IF np THEN 2 ELSE 0,
     maximalAccess |-> 2032127, guestAccess |-> 1180063] :
    d \in BOOLEAN, np \in BOOLEAN }

\* NT_CREATE_ANDX buildResult(file, callback): the result handed on
buildResult(r, f) ==
  LET head == Word8(r.andXCommand) \o Word8(0) \o Word16LE(r.andXOffset)
                \o Word8(IF r.opbatch THEN 2 ELSE 0)
                \o Word16LE(f.fid) \o Word32LE(f.createAction)
                \o Word32LE(f.created[1]) \o Word32LE(f.created[2])
                \o Word32LE(f.accessed[1]) \o Word32LE(f.accessed[2])
                \o Word32LE(f.modified[1]) \o Word32LE(f.modified[2])
                \o Word32LE(f.changed[1]) \o Word32LE(f.changed[2])
                \o Word32LE(f.attributes)
                \o Word64LE(f.allocationSize) \o Word64LE(f.dataSize)
                \o Word16LE(f.resourceType)
      tail == IF r.extended
                THEN Word16LE(7) \o Word8(IF f.isDirectory THEN 1 ELSE 0)
                       \o ZERO_GUID \o Word64LE(0)
                       \o Word32LE(f.maximalAccess) \o Word32LE(f.guestAccess)
                ELSE Word16LE(0) \o Word8(IF f.isDirectory THEN 1 ELSE 0)
      params == head \o tail
      result == Result(STATUS_SUCCESS, params, EMPTY_BUFFER)
  IN IF Len(params) > 2 * 42      \* params.length / 2 > 0x2a
       THEN result @@ [wordCount |-> 42]
       ELSE result

\* nothing called back yet
NoBack == [bytesRead |-> 0, file |-> "none"]

\* the handler is invoked: its synchronous part
Handle ==
  /\ hpc = "start"
  /\ LET d == HandleOf(hreq)
     IN /\ hpc' = d.pc
        /\ hresult' = d.result
        /\ hops' = d.ops
  /\ UNCHANGED <<hreq, hconts, heach, hback>>

\* the function given to process.nextTick runs: cb(result)
HandlerTick ==
  /\ hpc = "tick"
  /\ hpc' = "done"
  /\ hconts' = hconts + 1
  /\ UNCHANGED <<hreq, hresult, hops, heach, hback>>

\* the callback of the awaited operation runs with an outcome of the backend
OperationDone(outcome) ==
  /\ hpc = "op"
  /\ ~(hreq.handler \in {"DELETE", "READ_ANDX", "NT_CREATE_ANDX"} /\ outcome = "ok")
  /\ hpc' = "done"
  /\ hresult' = ResultOfOperation(hreq, outcome)
  /\ hconts' = hconts + 1
  /\ UNCHANGED <<hreq, hops, heach, hback>>

\* READ_ANDX: file.read calls back with (null, n, buf)
ReadDone(n) ==
  /\ hpc = "op"
  /\ hreq.handler = "READ_ANDX"
  /\ n <= hreq.maxCount
  /\ hpc' = "done"
  /\ hresult' = ReadAndxResult(hreq, n, FileRead(hreq, n))
  /\ hback' = [NoBack EXCEPT !.bytesRead = n]
  /\ hconts' = hconts + 1
  /\ UNCHANGED <<hreq, hops, heach>>

\* NT_CREATE_ANDX: tree.openOrCreate calls back with (null, file)
CreateDone(f) ==
  /\ hpc = "op"
  /\ hreq.handler = "NT_CREATE_ANDX"
  /\ hpc' = "done"
  /\ hresult' = buildResult(hreq, f)
  /\ hback' = [NoBack EXCEPT !.file = f]
  /\ hconts' = hconts + 1
  /\ UNCHANGED <<hreq, hops, heach>>

\* DELETE: tree.list gave n files; none gives NO_SUCH_FILE, otherwise
\* async.each calls file.delete on every one of them
ListDone(n) ==
  /\ hpc = "op"
  /\ hreq.handler = "DELETE"
  /\ IF n = 0
       THEN /\ hpc' = "done"
            /\ hresult' = ResultOfOperation(hreq, "ok")
            /\ hconts' = hconts + 1
            /\ UNCHANGED <<hops, heach>>
       ELSE /\ hpc' = "each"
            /\ hops' = hops \o [k \in 1..n |-> "file.delete"]
            /\ heach' = [pending |-> n, finished |-> FALSE, outcomes |-> <<>>]
            /\ UNCHANGED <<hresult, hconts>>
  /\ UNCHANGED <<hreq, hback>>

\* a variant of DeleteDone whose final callback is not guarded: it runs on
\* every error and when the last file.delete has called back
DeleteDoneUnguarded(outcome) ==
  /\ hpc \in {"each", "done"}
  /\ heach.pending > 0
  /\ LET left == heach.pending - 1
         ends == outcome # "ok" \/ left = 0
     IN /\ heach' = [pending |-> left, finished |-> heach.finished \/ ends,
                   outcomes |-> Append(heach.outcomes, outcome)]
        /\ IF ends
             THEN /\ hpc' = "done"
                  /\ hresult' = IF outcome = "ok" THEN ErrorResult(STATUS_SUCCESS)
                                ELSE ErrorResult(StatusOfError(outcome))
                  /\ hconts' = hconts + 1
             ELSE UNCHANGED <<hpc, hresult, hconts>>
  /\ UNCHANGED <<hreq, hops, hback>>

\* DELETE: one file.delete calls back; async.each calls its final callback on
\* the first error, or when the last one completed without any
DeleteDone(outcome) ==
  /\ hpc \in {"each", "done"}
  /\ heach.pending > 0
  /\ LET left == heach.pending - 1
         ends == ~heach.finished /\ (outcome # "ok" \/ left = 0)
     IN /\ heach' = [pending |-> left, finished |-> heach.finished \/ ends,
                   outcomes |-> Append(heach.outcomes, outcome)]
        /\ IF ends
             THEN /\ hpc' = "done"
                  /\ hresult' = IF outcome = "ok" THEN ErrorResult(STATUS_SUCCESS)
                                ELSE ErrorResult(StatusOfError(outcome))
                  /\ hconts' = hconts + 1
             ELSE UNCHANGED <<hpc, hresult, hconts>>
  /\ UNCHANGED <<hreq, hops, hback>>

HandlerInit ==
  /\ hreq \in Requests
  /\ hpc = "start"
  /\ hresult = NoHandlerResult
  /\ hops = <<>>
  /\ hconts = 0
  /\ heach = [pending |-> 0, finished |-> FALSE, outcomes |-> <<>>]
  /\ hback = NoBack

\* no handler invoked, for the specifications of the other parts
HandlerIdle ==
  /\ hreq = Request("CLOSE", FALSE, FALSE, "BELOW_PASSTHROUGH", FALSE, "zero", 0,
                    FALSE, FALSE, "zero")
  /\ hpc = "idle"
  /\ hresult = NoHandlerResult
  /\ hops = <<>>
  /\ hconts = 0
  /\ heach = [pending |-> 0, finished |-> FALSE, outcomes |-> <<>>]
  /\ hback = NoBack

----------------------------------------------------------------------------
(* The Rectifier, readFile and closeFile: lib/backends/sharelist/tree.js     *)
(* (lines 238-461), and FSFile.read/close: lib/backends/sharelist/file.js    *)

\* the only status of the origin that is taken for a ranged answer
PARTIAL_CONTENT == 206
\* the status of an origin that ignores the Range header
OK_STATUS == 200

\* 1024 * 1024
MiB == 1048576

\* 2 * 1024 * 1024, the least look-ahead
MinCacheSize == 2 * MiB

\* the lengths of the reads of the large file
FlowLengths == {0, 100}

Max(a, b) == IF a >= b THEN a ELSE b

\* Math.round(size / 10) for a size >= 0
RoundTenth(size) == (size + 5) \div 10

\* the request() object of a Rectifier, before start() made one
NoRequest ==
  [issued |-> FALSE, rangeStart |-> 0, responded |-> FALSE, status |-> 0,
   delivered |-> 0, ended |-> FALSE, paused |-> FALSE, aborted |-> FALSE,
   failed |-> FALSE]

\* new Rectifier(options, size, offset); options carries Range: bytes=offset-
NewRectifier(size, offset) ==
  [offset |-> offset, size |-> size, buffers |-> <<>>, position |-> offset,
   tasks |-> <<>>, loaded |-> FALSE, running |-> FALSE, closed |-> FALSE,
   paused |-> FALSE, length |-> 0,
   cacheSize |-> Max(RoundTenth(size), MinCacheSize),
   req |-> NoRequest]

\* Rectifier.start: request({...options, encoding: null}) issues the GET
start(r) ==
  [r EXCEPT !.req = [NoRequest EXCEPT !.issued = TRUE, !.rangeStart = r.offset]]

\* a Buffer of n bytes that nothing was written to
FreshBuffer(n) == [k \in 1..n |-> "unwritten"]

\* buffer[index] = byte, for a Buffer: an index past its end writes nothing
WriteAt(buf, index, byte) ==
  IF index + 1 \in 1..Len(buf) THEN [buf EXCEPT ![index + 1] = byte] ELSE buf

RECURSIVE WriteAll(_, _, _)
WriteAll(buf, index, bytes) ==
  IF bytes = <<>> THEN buf
  ELSE WriteAll(WriteAt(buf, index, Head(bytes)), index + 1, Tail(bytes))

\* A chunk of the upstream holds consecutive bytes of the file, and a byte of
\* the file is named by its offset: the chunk of the len bytes from offset from
Chunk(from, len) == [from |-> from, len |-> len]

\* chunk.slice(i)
Slice(b, i) == Chunk(b.from + i, b.len - i)

\* buffer[index++] = b[i] for the first n bytes of chunk b
WriteRun(buf, index, b, n) ==
  [k \in 1..Len(buf) |-> IF k - 1 >= index /\ k - 1 < index + n
                           THEN b.from + (k - 1 - index) ELSE buf[k]]

\* The loop of Rectifier.read: chunks are shifted off the queue and copied
\* byte by byte; when, after a byte, index equals length, the rest of the chunk
\* is put back at the head and this.length is lowered. Gives the queue, the
\* buffer, and whether the loop ended that way.
RECURSIVE ReadLoop(_, _, _, _)
ReadLoop(bufs, index, buf, length) ==
  IF bufs = <<>> THEN [buffers |-> <<>>, buffer |-> buf, filled |-> FALSE]
  ELSE LET b == Head(bufs)
           n == length - index   \* the byte of b after which index = length
       IN IF n >= 1 /\ n <= b.len
            THEN [buffers |-> <<Slice(b, n)>> \o Tail(bufs),
                  buffer |-> WriteRun(buf, index, b, n),
                  filled |-> TRUE]
            ELSE ReadLoop(Tail(bufs), index + b.len, WriteRun(buf, index, b, b.len), length)

\* Rectifier.read(buffer, offset, length, position, cb): the rectifier after
\* it, and what cb is called with
read(r, buffer, offset, length, position) ==
  LET len  == IF length > r.length THEN r.length ELSE length
      loop == ReadLoop(r.buffers, offset, buffer, len)
  IN [rect |-> [r EXCEPT !.buffers = loop.buffers,
                         !.length = IF loop.filled THEN @ - len ELSE @],
      bytesRead |-> len,
      buffer |-> loop.buffer]

\* Math.max(...tasks.map(i => i[0]), 0)
RECURSIVE Farthest(_)
Farthest(tasks) ==
  IF tasks = <<>> THEN 0 ELSE Max(Head(tasks).target, Farthest(Tail(tasks)))

\* a variant of Throttle that pauses at half the look-ahead
ThrottleAtHalf(r) ==
  LET far == Farthest(r.tasks)
  IN IF 2 * (r.position - far) > r.cacheSize
       THEN [r EXCEPT !.req.paused = TRUE, !.paused = TRUE]
     ELSE IF 5 * (r.position - far) < r.cacheSize /\ r.paused
       THEN [r EXCEPT !.req.paused = FALSE, !.paused = FALSE]
     ELSE r

\* the first part of updateTask: pause or resume the upstream
Throttle(r) ==
  LET far == Farthest(r.tasks)
  IN IF r.position - far > r.cacheSize
       THEN [r EXCEPT !.req.paused = TRUE, !.paused = TRUE]
     ELSE IF 5 * (r.position - far) < r.cacheSize /\ r.paused
       THEN [r EXCEPT !.req.paused = FALSE, !.paused = FALSE]
     ELSE r

\* a variant of Due without the case of the ended stream
DueWhenReached(r, t) == t.target <= r.position

\* whether the loop of updateTask invokes the waiter of task t
Due(r, t) == t.target <= r.position \/ (t.target > r.size /\ r.loaded)

\* The loop of updateTask over the tasks: the waiter of a due task is invoked
\* (the waiter readFile registers calls rectifier.read and hands the outcome
\* to the read's callback), the others are kept. Gives the rectifier, the
\* tasks kept and the reads completed, in order.
RECURSIVE RunTasks(_, _, _, _)
RunTasks(r, tasks, undone, done) ==
  IF tasks = <<>> THEN [rect |-> [r EXCEPT !.tasks = undone], done |-> done]
  ELSE LET t == Head(tasks)
       IN IF Due(r, t)
            THEN LET out == read(r, FreshBuffer(t.offset + t.length), t.offset,
                                 t.length, t.position)
                 IN RunTasks(out.rect, Tail(tasks), undone,
                             Append(done, [read |-> t.read, bytesRead |-> out.bytesRead,
                                           buffer |-> out.buffer,
                                           queued |-> r.buffers,
                                           left |-> out.rect.buffers]))
            ELSE RunTasks(r, Tail(tasks), Append(undone, t), done)

\* Rectifier.updateTask
updateTask(r) ==
  LET r1 == Throttle(r) IN RunTasks(r1, r1.tasks, <<>>, <<>>)

\* Rectifier.when(position, cb), for the waiter of read call t.read
when(r, t) ==
  IF r.closed THEN [rect |-> r, done |-> <<>>]
  ELSE LET r1 == [r EXCEPT !.tasks = Append(@, t)]
           r2 == IF ~r1.running THEN [start(r1) EXCEPT !.running = TRUE] ELSE r1
       IN updateTask(r2)

\* the handler of 'response': a status other than 206 restarts at byte 0
onResponse(r, status) ==
  LET r1 == [r EXCEPT !.req.responded = TRUE, !.req.status = status]
  IN IF status # PARTIAL_CONTENT THEN [r1 EXCEPT !.offset = 0, !.position = 0] ELSE r1

\* the first byte of the body: the range start for 206, byte 0 otherwise
BodyStart(r) == IF r.req.status = PARTIAL_CONTENT THEN r.req.rangeStart ELSE 0

\* the bytes of the body the upstream has not delivered yet
BodyLeft(r) == r.size - BodyStart(r) - r.req.delivered

\* the next n bytes of the body
NextChunk(r, n) == Chunk(BodyStart(r) + r.req.delivered, n)

\* the handler of 'data' on a chunk of n bytes
onData(r, n) ==
  LET r1 == [r EXCEPT !.buffers = Append(@, NextChunk(r, n)),
                      !.length = @ + n,
                      !.position = @ + n,
                      !.req.delivered = @ + n]
  IN updateTask(r1)

\* the handler of 'end'
onEnd(r) == updateTask([r EXCEPT !.loaded = TRUE, !.req.ended = TRUE])

\* Rectifier.close(cb): gives the rectifier and whether cb was called
close(r) ==
  LET r1 == [r EXCEPT !.tasks = <<>>, !.loaded = FALSE, !.closed = TRUE]
  IN IF r1.req.issued
       THEN [rect |-> [r1 EXCEPT !.req.aborted = TRUE], called |-> TRUE]
       ELSE [rect |-> r1, called |-> FALSE]

\* stats.outputType of the file: 'url' (the default), 'file', or anything else
OutputTypes == {"url", "file", "other"}

\* A call of read: its arguments, where it stands, and what its callback got.
\* queued and left are the chunk queue before and after Rectifier.read ran, and
\* whilePaused whether the upstream was paused when the waiter was registered,
\* streamAt the position of the Rectifier then.
NewRead(position, length) ==
  [position |-> position, length |-> length, offset |-> 0, pc |-> "waiting",
   cbCalls |-> 0, err |-> "none", bytesRead |-> 0, buffer |-> <<>>, rect |-> 0,
   queued |-> <<>>, left |-> <<>>, whilePaused |-> FALSE, streamAt |-> position]

\* the callbacks of the reads in done are called with (null, bytesRead, buffer)
RECURSIVE Deliver(_, _)
Deliver(rs, done) ==
  IF done = <<>> THEN rs
  ELSE LET d == Head(done)
       IN Deliver([rs EXCEPT ![d.read] = [@ EXCEPT !.pc = "done", !.cbCalls = @ + 1,
                                                  !.bytesRead = d.bytesRead,
                                                  !.buffer = d.buffer,
                                                  !.queued = d.queued,
                                                  !.left = d.left]],
                  Tail(done))

\* the position at which the next read may start: reads are sequential
\* (positions never decrease)
LastPosition == IF reads = <<>> THEN 0 ELSE reads[Len(reads)].position

\* readFile(file, buffer, offset, length, position, cb), through FSFile.read
readFile(position, length) ==
  /\ ~exited
  /\ ~file.closed
  /\ Len(reads) < MaxReads
  /\ LET k  == Len(reads) + 1
         rd == NewRead(position, length)
         t  == [target |-> position + length, read |-> k, position |-> position,
                length |-> length, offset |-> 0]
     IN CASE file.outputType = "url" ->
               \* file.fd is never set for a url: each call makes a Rectifier
               LET made == IF file.fd = "undefined"
                             THEN Append(rects, NewRectifier(file.size, position))
                             ELSE rects
                   at   == IF file.fd = "undefined" THEN Len(made) ELSE file.rectifier
                   out  == when(made[at], t)
               IN /\ rects' = [made EXCEPT ![at] = out.rect]
                  /\ file' = [file EXCEPT !.rectifier = at]
                  /\ reads' = Deliver(Append(reads, [rd EXCEPT !.rect = at]), out.done)
          [] file.outputType = "file" ->
               \* fs.read on the descriptor, after fs.open when there is none
               /\ reads' = Append(reads, [rd EXCEPT !.pc = IF file.fd = "undefined"
                                                            THEN "fs.open" ELSE "fs.read"])
               /\ UNCHANGED <<file, rects>>
          [] OTHER ->
               /\ reads' = Append(reads, [rd EXCEPT !.pc = "done", !.cbCalls = 1,
                                                   !.err = "unsupport type"])
               /\ UNCHANGED <<file, rects>>

\* the callback of fs.open runs
fsOpenDone(k, ok) ==
  /\ ~exited
  /\ reads[k].pc = "fs.open"
  /\ IF ok
       THEN /\ file' = [file EXCEPT !.fd = "fd"]
            /\ reads' = [reads EXCEPT ![k].pc = "fs.read"]
       ELSE /\ reads' = [reads EXCEPT ![k].pc = "done", ![k].cbCalls = @ + 1,
                                      ![k].err = "unable to get file descriptor"]
            /\ UNCHANGED file
  /\ UNCHANGED rects

\* the bytes of the local file from position on, at most length of them
LocalBytes(position, length) ==
  LET n == Max(0, IF file.size - position < length THEN file.size - position ELSE length)
  IN [k \in 1..n |-> position + k - 1]

\* the callback of fs.read runs
fsReadDone(k) ==
  /\ ~exited
  /\ reads[k].pc = "fs.read"
  /\ LET bytes == LocalBytes(reads[k].position, reads[k].length)
     IN reads' = [reads EXCEPT ![k].pc = "done", ![k].cbCalls = @ + 1,
                               ![k].bytesRead = Len(bytes),
                               ![k].buffer = WriteAll(FreshBuffer(reads[k].length), 0, bytes)]
  /\ UNCHANGED <<file, rects>>

\* the upstream of Rectifier k answers
Response(k, status) ==
  /\ ~exited
  /\ rects[k].req.issued /\ ~rects[k].req.responded /\ ~rects[k].req.aborted
  /\ rects' = [rects EXCEPT ![k] = onResponse(@, status)]
  /\ UNCHANGED <<file, reads>>

\* a chunk of n bytes of the upstream of Rectifier k arrives
Data(k, n) ==
  /\ ~exited
  /\ rects[k].req.responded /\ ~rects[k].req.aborted /\ ~rects[k].req.paused
  /\ ~rects[k].req.ended
  /\ n <= BodyLeft(rects[k])
  /\ LET out == onData(rects[k], n)
     IN /\ rects' = [rects EXCEPT ![k] = out.rect]
        /\ reads' = Deliver(reads, out.done)
  /\ UNCHANGED file

\* the upstream of Rectifier k ends
End(k) ==
  /\ ~exited
  /\ rects[k].req.responded /\ ~rects[k].req.aborted /\ ~rects[k].req.paused
  /\ ~rects[k].req.ended
  /\ BodyLeft(rects[k]) <= 0
  /\ LET out == onEnd(rects[k])
     IN /\ rects' = [rects EXCEPT ![k] = out.rect]
        /\ reads' = Deliver(reads, out.done)
  /\ UNCHANGED file

\* The transport of the upstream of Rectifier k fails: the request emits
\* 'error'. start() registers a listener for 'response' only, so the emit
\* throws; the request was made inside the domain of the command handler,
\* whose error handler calls process.exit(1). No waiter is called.
TransportError(k) ==
  /\ ~exited
  /\ rects[k].req.issued /\ ~rects[k].req.aborted /\ ~rects[k].req.ended
  /\ rects' = [rects EXCEPT ![k].req.failed = TRUE]
  /\ exited' = TRUE
  /\ UNCHANGED <<file, reads>>

\* rectifier.when(position + length, waiter) on Rectifier k, with the waiter
\* readFile registers: rectifier.read(buffer, offset, length, position, cb)
When(k, position, length, offset) ==
  /\ ~exited
  /\ Len(reads) < MaxReads
  /\ LET rd  == [NewRead(position, length) EXCEPT !.offset = offset, !.rect = k,
                                                  !.whilePaused = rects[k].req.paused,
                                                  !.streamAt = rects[k].position]
         t   == [target |-> position + length, read |-> Len(reads) + 1,
                 position |-> position, length |-> length, offset |-> offset]
         out == when(rects[k], t)
     IN /\ rects' = [rects EXCEPT ![k] = out.rect]
        /\ reads' = Deliver(Append(reads, rd), out.done)
  /\ UNCHANGED file

\* rectifier.close(cb) on Rectifier k
Close(k) ==
  /\ ~exited
  /\ ~rects[k].closed
  /\ rects' = [rects EXCEPT ![k] = close(@).rect]
  /\ UNCHANGED <<file, reads>>

\* FSFile.close(cb): closeFile(file, cb), then fileCount[realPath]--
closeFile ==
  /\ ~exited
  /\ ~file.closed
  /\ IF file.rectifier # 0
       THEN LET out == close(rects[file.rectifier])
            IN /\ rects' = [rects EXCEPT ![file.rectifier] = out.rect]
               /\ file' = [file EXCEPT !.rectifier = 0, !.closed = TRUE,
                                       !.fileCount = @ - 1,
                                       !.closeCalls = IF out.called THEN @ + 1 ELSE @]
     ELSE IF file.fd # "undefined"
       THEN /\ file' = [file EXCEPT !.fd = "undefined", !.closed = TRUE,
                                    !.fileCount = @ - 1, !.closeCalls = @ + 1]
            /\ UNCHANGED rects
     ELSE /\ file' = [file EXCEPT !.closed = TRUE, !.fileCount = @ - 1]
          /\ UNCHANGED rects
  /\ UNCHANGED reads

\* new FSFile(name, stats, tree): the file as FSTree.open hands it out
NewFile(outputType, size) ==
  [outputType |-> outputType, size |-> size, fd |-> "undefined", rectifier |-> 0,
   closed |-> FALSE, fileCount |-> 1, closeCalls |-> 0]

ReadInit ==
  /\ file \in { NewFile(ot, sz) : ot \in OutputTypes, sz \in {FileSize} }
  /\ rects = <<>>
  /\ reads = <<>>

\* one Rectifier constructed for a file of the size, at the offset
RectInit(size, offset) ==
  /\ file = [NewFile("url", size) EXCEPT !.closed = TRUE]
  /\ rects = <<NewRectifier(size, offset)>>
  /\ reads = <<>>

\* no file opened, for the specifications of the other parts
ReadIdle ==
  /\ file = [NewFile("url", 0) EXCEPT !.closed = TRUE]
  /\ rects = <<>>
  /\ reads = <<>>

----------------------------------------------------------------------------
(* The tasks of a Rectifier and any waiter: Rectifier.when, updateTask, close *)

\* the most callbacks passed to when
MaxWaiters == 3

\* A callback cb passed to when(target, cb). further is <<>> for a waiter that
\* calls nothing of the Rectifier, and <<p>> for one that calls when(p, cb2) on
\* the Rectifier the first time it is invoked.
\* What is recorded: the invocations, whether each of them found the task due,
\* whether one of them found the Rectifier closed, and whether the Rectifier
\* was closed when the waiter was passed to when.
NewWaiter(target, further, closed) ==
  [target |-> target, further |-> further, calls |-> 0, foundDue |-> TRUE,
   afterClose |-> FALSE, whenClosed |-> closed]

\* cb(this)
Invoke(r, w) ==
  [w EXCEPT !.calls = @ + 1, !.foundDue = @ /\ Due(r, w),
            !.afterClose = @ \/ r.closed]

\* The loop of updateTask for any waiter. arr is the array the loop iterates,
\* the one this.tasks named when updateTask began; i the place of the
\* iterator; aliased tells whether this.tasks still names that array. A waiter
\* that calls when pushes its task on this.tasks - on arr too while aliased,
\* and the iterator of for..of then reaches it - and runs updateTask within
\* its own invocation, which at its end makes this.tasks name a new array. At
\* the end of the loop this.tasks = undone.
RECURSIVE TaskLoop(_, _, _, _, _, _)
TaskLoop(r, ws, arr, i, undone, aliased) ==
  IF i > Len(arr) THEN [rect |-> [r EXCEPT !.tasks = undone], waiters |-> ws]
  ELSE LET t == arr[i]
       IN IF ~Due(r, t) THEN TaskLoop(r, ws, arr, i + 1, Append(undone, t), aliased)
          ELSE LET w   == ws[t.waiter]
                   ws1 == [ws EXCEPT ![t.waiter] = Invoke(r, w)]
               IN IF w.further = <<>> \/ w.calls > 0 \/ r.closed
                    THEN TaskLoop(r, ws1, arr, i + 1, undone, aliased)
                    ELSE LET t2  == [target |-> w.further[1], waiter |-> Len(ws1) + 1]
                             ws2 == Append(ws1, NewWaiter(w.further[1], <<>>, FALSE))
                             r1  == [r EXCEPT !.tasks = Append(@, t2)]
                             r2  == IF ~r1.running
                                      THEN [start(r1) EXCEPT !.running = TRUE] ELSE r1
                             r3  == Throttle(r2)
                             in  == TaskLoop(r3, ws2, r3.tasks, 1, <<>>, TRUE)
                         IN TaskLoop(in.rect, in.waiters,
                                     IF aliased THEN Append(arr, t2) ELSE arr,
                                     i + 1, undone, FALSE)

\* Rectifier.updateTask, for any waiter
updateTaskOf(r, ws) ==
  LET r1 == Throttle(r) IN TaskLoop(r1, ws, r1.tasks, 1, <<>>, TRUE)

\* a variant of whenOf that does not look at closed
whenOfClosed(r, ws, target, further) ==
  LET ws1 == Append(ws, NewWaiter(target, further, r.closed))
      r1 == [r EXCEPT !.tasks = Append(@, [target |-> target, waiter |-> Len(ws1)])]
      r2 == IF ~r1.running THEN [start(r1) EXCEPT !.running = TRUE] ELSE r1
  IN updateTaskOf(r2, ws1)

\* Rectifier.when(target, cb), for any waiter, called from outside a waiter
whenOf(r, ws, target, further) ==
  LET ws1 == Append(ws, NewWaiter(target, further, r.closed))
  IN IF r.closed THEN [rect |-> r, waiters |-> ws1]
     ELSE LET r1 == [r EXCEPT !.tasks = Append(@, [target |-> target,
                                                   waiter |-> Len(ws1)])]
              r2 == IF ~r1.running THEN [start(r1) EXCEPT !.running = TRUE] ELSE r1
          IN updateTaskOf(r2, ws1)

\* the waiters that will pass a further callback to when
Registering == { k \in DOMAIN waiters : waiters[k].further # <<>> /\ waiters[k].calls = 0 }

\* when(target, cb) is called on Rectifier 1
WhenOf(target, further) ==
  /\ ~exited
  /\ Len(waiters) + 1 + Cardinality(Registering)
       + Len(further) <= MaxWaiters
  /\ LET out == whenOf(rects[1], waiters, target, further)
     IN /\ rects' = [rects EXCEPT ![1] = out.rect]
        /\ waiters' = out.waiters
  /\ UNCHANGED <<file, reads>>

\* A chunk of n bytes of the upstream of Rectifier 1 arrives. abort() does not
\* take back what the response already emits: a chunk may arrive after close.
DataOf(n) ==
  /\ ~exited
  /\ rects[1].req.responded /\ ~rects[1].req.paused /\ ~rects[1].req.ended
  /\ n <= BodyLeft(rects[1])
  /\ LET r  == rects[1]
         r1 == [r EXCEPT !.buffers = Append(@, NextChunk(r, n)),
                         !.length = @ + n,
                         !.position = @ + n,
                         !.req.delivered = @ + n]
         out == updateTaskOf(r1, waiters)
     IN /\ rects' = [rects EXCEPT ![1] = out.rect]
        /\ waiters' = out.waiters
  /\ UNCHANGED <<file, reads>>

\* the upstream of Rectifier 1 ends, after close too
EndOf ==
  /\ ~exited
  /\ rects[1].req.responded /\ ~rects[1].req.paused /\ ~rects[1].req.ended
  /\ BodyLeft(rects[1]) <= 0
  /\ LET out == updateTaskOf([rects[1] EXCEPT !.loaded = TRUE, !.req.ended = TRUE],
                             waiters)
     IN /\ rects' = [rects EXCEPT ![1] = out.rect]
        /\ waiters' = out.waiters
  /\ UNCHANGED <<file, reads>>

TaskIdle == waiters = <<>>

----------------------------------------------------------------------------
(* FSTree.open and FSTree.list and their callbacks:                          *)
(* lib/backends/sharelist/tree.js                                            *)

\* the most calls of open and list in flight
MaxTreeCalls == 2

\* What instance.command('ls', ...) gives: the promise is fulfilled with a
\* file, with a folder that has its children, or with an object without
\* children, or it is rejected.
LsOutcomes == {"file", "folder", "nochildren", "rejected"}

\* A call of open or list. star: the pattern of list ends with '/*'; raises:
\* the callback given throws when it is called. pc: pending (the promise of ls
\* is not settled), catch (the handler given to then has thrown or was passed
\* over, the one given to catch is next), settled (no handler is left to run).
\* unhandled: the chain ended in a rejection that no handler takes.
NewTreeCall(op, star, ls, raises) ==
  [op |-> op, star |-> star, ls |-> ls, raises |-> raises, pc |-> "pending",
   cbCalls |-> 0, threw |-> FALSE, unhandled |-> FALSE]

\* cb(...) is called from a handler of the promise
CallCb(c) == [c EXCEPT !.cbCalls = @ + 1]

\* FSTree.open(name, cb): nothing is called back before the promise settles
TreeOpen(ls, raises) ==
  /\ Len(tcalls) < MaxTreeCalls
  /\ tcalls' = Append(tcalls, NewTreeCall("open", FALSE, ls, raises))

\* FSTree.list(pattern, cb): cb(null, []) at once for a pattern that does not
\* end with '/*', and ls is not called
TreeList(star, ls, raises) ==
  /\ Len(tcalls) < MaxTreeCalls
  /\ star \/ ls = "folder"
  /\ LET c == NewTreeCall("list", star, ls, raises)
     IN tcalls' = Append(tcalls,
                         IF star THEN c
                         ELSE [CallCb(c) EXCEPT !.pc = "settled", !.threw = raises])

\* The promise of ls is fulfilled and the handler given to then runs. open
\* calls cb with the file or with the error of a folder; a throw of cb rejects
\* the promise that catch was called on. list maps resp.children, which throws
\* a TypeError without children, and calls cb; no handler takes a rejection.
OnFulfilled(k) ==
  /\ k \in DOMAIN tcalls
  /\ tcalls[k].pc = "pending"
  /\ tcalls[k].ls # "rejected"
  /\ LET c == tcalls[k]
     IN tcalls' = [tcalls EXCEPT ![k] =
          IF c.op = "open"
            THEN [CallCb(c) EXCEPT !.pc = IF c.raises THEN "catch" ELSE "settled"]
          ELSE IF c.ls # "folder"
            THEN [c EXCEPT !.pc = "settled", !.unhandled = TRUE]
          ELSE [CallCb(c) EXCEPT !.pc = "settled", !.unhandled = c.raises]]

\* The promise of ls is rejected: the handler given to then is passed over.
\* open has a handler given to catch; list has none.
OnRejected(k) ==
  /\ k \in DOMAIN tcalls
  /\ tcalls[k].pc = "pending"
  /\ tcalls[k].ls = "rejected"
  /\ tcalls' = [tcalls EXCEPT ![k] =
       IF @.op = "open" THEN [@ EXCEPT !.pc = "catch"]
       ELSE [@ EXCEPT !.pc = "settled", !.unhandled = TRUE]]

\* the handler open gave to catch runs: cb(SMBError.fromSystemError(...))
OnCatch(k) ==
  /\ k \in DOMAIN tcalls
  /\ tcalls[k].pc = "catch"
  /\ LET c == tcalls[k]
     IN tcalls' = [tcalls EXCEPT ![k] =
          [CallCb(c) EXCEPT !.pc = "settled", !.unhandled = c.raises]]

TreeIdle == tcalls = <<>>

----------------------------------------------------------------------------
(* NTLM: lib/ntlm.js *)

\* A buffer is a sequence of bytes. The hash functions of the crypto module
\* are stood for by a mix of all the bytes given, each weighted by its place,
\* from a seed.
RECURSIVE MixRange(_, _, _, _)
MixRange(seed, bytes, lo, hi) ==
  IF lo > hi THEN 0
  ELSE IF lo = hi
    THEN ((bytes[lo] + 1) * (1 + ((lo * lo * 31 + lo * 7 + seed * 13) % 8191))) % 65521
  ELSE (MixRange(seed, bytes, lo, (lo + hi) \div 2)
          + MixRange(seed, bytes, (lo + hi) \div 2 + 1, hi)) % 65521

Fold(seed, bytes) == (MixRange(seed, bytes, 1, Len(bytes)) + Len(bytes)) % 65521

\* crypto.createHmac('md5', key).update(data).digest(): 16 bytes
Hmac(key, data) ==
  LET bytes == key \o <<255>> \o data
      a     == Fold(1, bytes)
      b     == Fold(2, bytes)
  IN [i \in 1..16 |-> ((a + i * b) % 65521) % 256]

\* crypto.createCipheriv('des-ecb', key64, '').update(block): one block of 8
\* bytes for a block of 8 bytes; DES does not use the parity bit of a key byte
Des(key64, block) ==
  LET bytes == [k \in 1..8 |-> key64[k] \div 2] \o block
      a     == Fold(3, bytes)
      b     == Fold(4, bytes)
  IN [i \in 1..(8 * (Len(block) \div 8)) |-> ((a + i * b) % 65521) % 256]

Pow2(n) == IF n = 0 THEN 1 ELSE IF n = 1 THEN 2 ELSE IF n = 2 THEN 4
           ELSE IF n = 3 THEN 8 ELSE IF n = 4 THEN 16 ELSE IF n = 5 THEN 32
           ELSE IF n = 6 THEN 64 ELSE IF n = 7 THEN 128 ELSE 256

\* a variant of expandKey that leaves out the bits shifted in from the byte
\* before: byte i is key56[i] >> i with its bit 0 cleared or set
expandKeyNoCarry(key56) ==
  [j \in 1..8 |->
     LET i  == j - 1
         lo == IF i = 7 THEN 0 ELSE key56[i + 1] \div Pow2(i)
     IN (lo - (lo % 2)) + (IF i % 2 = 1 THEN 1 ELSE 0)]

\* expandKey(key56): byte i (from 0) is ((key56[i-1] << (8-i)) & 0xff) |
\* (key56[i] >> i); then bit 0 is cleared for even i and set for odd i
expandKey(key56) ==
  [j \in 1..8 |->
     LET i  == j - 1
         hi == IF i = 0 THEN 0 ELSE (key56[i] % Pow2(i)) * Pow2(8 - i)
         lo == IF i = 7 THEN 0 ELSE key56[i + 1] \div Pow2(i)
         v  == IF i = 0 THEN key56[1] - (key56[1] % 2) ELSE hi + lo
     IN (v - (v % 2)) + (IF i % 2 = 1 THEN 1 ELSE 0)]

\* the keys of the three DES ciphers of calculateLMResponse and of
\* calculateNTLMResponse: hash.slice(0, 7), hash.slice(7, 14) and hash.slice(14)
\* of the hash grown to 21 bytes, each expanded
ResponseKeys(lmHash) ==
  LET hash == [i \in 1..21 |-> IF i <= 16 THEN lmHash[i] ELSE 0]
  IN <<expandKey(SubSeq(hash, 1, 7)), expandKey(SubSeq(hash, 8, 14)),
       expandKey(SubSeq(hash, 15, 21))>>

\* calculateLMResponse(lmHash, challenge): the 16-byte hash grown to 21 bytes
\* with zeros, and three DES blocks keyed by its bytes 0-6, 7-13 and 14-20
calculateLMResponse(lmHash, challenge) ==
  LET keys == ResponseKeys(lmHash)
  IN Des(keys[1], challenge) \o Des(keys[2], challenge) \o Des(keys[3], challenge)

\* calculateNTLMResponse(ntlmHash, challenge): the same computation
calculateNTLMResponse(ntlmHash, challenge) == calculateLMResponse(ntlmHash, challenge)

\* a variant of calculateLM2Response with the client challenge in front
ChallengeFirstResponse(ntlm2Hash, clientChallenge, challenge) ==
  clientChallenge \o Hmac(ntlm2Hash, challenge \o clientChallenge)

\* calculateLM2Response(ntlm2Hash, clientChallenge, challenge)
calculateLM2Response(ntlm2Hash, clientChallenge, challenge) ==
  Hmac(ntlm2Hash, challenge \o clientChallenge) \o clientChallenge

\* String.toUpperCase, on the character codes of a-z
toUpperCase(str) == [i \in 1..Len(str) |-> IF str[i] \in 97..122 THEN str[i] - 32 ELSE str[i]]

\* new Buffer(str, 'utf16le')
RECURSIVE Utf16le(_)
Utf16le(str) ==
  IF str = <<>> THEN <<>>
  ELSE <<Head(str) % 256, Head(str) \div 256>> \o Utf16le(Tail(str))

\* createNTLM2Hash(ntlmHash, userName, domainName)
createNTLM2Hash(ntlmHash, userName, domainName) ==
  Hmac(ntlmHash, Utf16le(toUpperCase(userName) \o toUpperCase(domainName)))

\* calculateNTLM2Response(ntlm2Hash, blob, challenge)
calculateNTLM2Response(ntlm2Hash, blob, challenge) ==
  Hmac(ntlm2Hash, challenge \o blob) \o blob

\* a variant of buf.slice(from) that starts one byte early
SliceFromBefore(buf, from) == SubSeq(buf, from, Len(buf))

\* buf.slice(from): the bytes from offset from (from 0) on
SliceFrom(buf, from) == SubSeq(buf, from + 1, Len(buf))

\* utils.bufferEquals
bufferEquals(a, b) == a = b

\* the verdict of a validator: what it returns, or "fault" when it throws
Verdict(b) == IF b THEN "true" ELSE "false"

validateLMResponse(lmResponse, lmHash, challenge) ==
  IF Len(lmResponse) # 24 THEN "false"
  ELSE Verdict(bufferEquals(calculateLMResponse(lmHash, challenge), lmResponse))

validateLMv2Response(lm2Response, ntlmHash, userName, domainName, challenge) ==
  IF Len(lm2Response) # 24 THEN "false"
  ELSE LET hash  == createNTLM2Hash(ntlmHash, userName, domainName)
           nonce == SliceFrom(lm2Response, 16)
       IN Verdict(bufferEquals(calculateLM2Response(hash, nonce, challenge), lm2Response))

validateNTLMResponse(ntlmResponse, ntlmHash, challenge) ==
  IF Len(ntlmResponse) # 24 THEN "false"
  ELSE Verdict(bufferEquals(calculateNTLMResponse(ntlmHash, challenge), ntlmResponse))

MIN_BLOB_SIZE == 36

BLOB_SIGNATURE == <<1, 1, 0, 0>>

\* The loop of parseNTLMv2Blob over the attribute/value list from offset off
\* (from 0) on: the offset behind the type of the terminator, or -1 when
\* blob.readUInt16LE reads past the end of the blob and throws.
RECURSIVE WalkInfo(_, _)
WalkInfo(blob, off) ==
  IF off + 2 > Len(blob) THEN -1
  ELSE IF blob[off + 1] + 256 * blob[off + 2] = 0 THEN off + 2
  ELSE IF off + 4 > Len(blob) THEN -1
  ELSE WalkInfo(blob, off + 4 + blob[off + 3] + 256 * blob[off + 4])

\* parseNTLMv2Blob(blob): null, a fault, or the object parsed
parseNTLMv2Blob(blob) ==
  [parsed |-> IF Len(blob) < MIN_BLOB_SIZE THEN "null"
              ELSE IF WalkInfo(blob, 28) = -1 THEN "fault" ELSE "object",
   signature |-> SubSeq(blob, 1, 4),
   nonce |-> SubSeq(blob, 17, 24)]

validateNTLMv2Response(ntlm2Response, ntlmHash, userName, domainName, challenge) ==
  IF Len(ntlm2Response) < 16 + MIN_BLOB_SIZE THEN "false"
  ELSE LET hash    == createNTLM2Hash(ntlmHash, userName, domainName)
           blob    == SliceFrom(ntlm2Response, 16)
           blobObj == parseNTLMv2Blob(blob)
       IN IF blobObj.parsed # "object" THEN "fault"
          ELSE IF ~bufferEquals(BLOB_SIGNATURE, blobObj.signature) THEN "false"
          ELSE Verdict(bufferEquals(calculateNTLM2Response(hash, blob, challenge),
                                    ntlm2Response))

\* the stored hashes, the challenges of server and client, the names
Hashes == { [i \in 1..16 |-> i], [i \in 1..16 |-> (i * 17 + 3) % 256],
            [i \in 1..16 |-> 255 - i] }

Challenges == { [i \in 1..8 |-> 16 * i], [i \in 1..8 |-> 255 - i] }

ClientChallenges == { [i \in 1..8 |-> 7 * i], [i \in 1..8 |-> 200 + i] }

Names == { <<97, 66>>, <<65, 98, 233>> }

Domains == { <<100, 79>> }

\* well-formed blobs: signature, reserved, time stamp, client nonce, unknown,
\* the target-info list with its terminator, and 4 bytes behind it
Blobs ==
  { BLOB_SIGNATURE \o Pad(4) \o [i \in 1..8 |-> i] \o cc \o Pad(4) \o info \o Pad(4) :
      cc \in ClientChallenges,
      info \in { <<0, 0, 0, 0>>, <<2, 0, 2, 0, 68, 0, 0, 0, 0, 0>> } }

Kinds == {"lm", "lm2", "ntlm", "ntlm2"}

\* the response the client calculates
Calculate(kind) ==
  /\ ntlm.pc = "input"
  /\ ntlm' = [ntlm EXCEPT
       !.pc = "calculated",
       !.kind = kind,
       !.keys = IF kind \in {"lm", "ntlm"} THEN ResponseKeys(ntlm.hash) ELSE <<>>,
       !.response =
         CASE kind = "lm" -> calculateLMResponse(ntlm.hash, ntlm.challenge)
           [] kind = "ntlm" -> calculateNTLMResponse(ntlm.hash, ntlm.challenge)
           [] kind = "lm2" ->
                calculateLM2Response(createNTLM2Hash(ntlm.hash, ntlm.user, ntlm.domain),
                                     ntlm.clientChallenge, ntlm.challenge)
           [] OTHER ->
                calculateNTLM2Response(createNTLM2Hash(ntlm.hash, ntlm.user, ntlm.domain),
                                       ntlm.blob, ntlm.challenge)]

\* byte v with bit b (0 the lowest) flipped
FlipBit(v, b) == IF (v \div Pow2(b)) % 2 = 1 THEN v - Pow2(b) ELSE v + Pow2(b)

\* the response reaches the server with bit b of its byte i flipped
Tamper(i, b) ==
  /\ ntlm.pc = "calculated"
  /\ ntlm.flip = <<>>
  /\ ~ntlm.resized
  /\ i \in 1..Len(ntlm.response)
  /\ ntlm' = [ntlm EXCEPT !.flip = <<i, b>>,
                          !.response[i] = FlipBit(ntlm.response[i], b)]

\* lengths a response is cut or grown to
ResponseLengths == {0, 16, 23, 25, 51, 52}

\* the response reaches the server cut to n bytes, or grown to n bytes by zeros
Resize(n) ==
  /\ ntlm.pc = "calculated"
  /\ ntlm.flip = <<>>
  /\ ~ntlm.resized
  /\ n # Len(ntlm.response)
  /\ ntlm' = [ntlm EXCEPT !.resized = TRUE,
                          !.response = [k \in 1..n |-> IF k <= Len(ntlm.response)
                                                       THEN ntlm.response[k] ELSE 0]]

\* a variant of ValidatorCalls that derives the NTLMv2 hash before it looks
\* at the length of the response
CallsBeforeLengthCheck(kind, response) ==
  IF kind \in {"lm", "ntlm"}
    THEN IF Len(response) # 24 THEN {} ELSE {"createCipheriv"}
  ELSE {"createHmac"}

\* the calls a validator makes on a response: to the ciphers and digests of
\* crypto and to parseNTLMv2Blob
ValidatorCalls(kind, response) ==
  IF kind \in {"lm", "ntlm"}
    THEN IF Len(response) # 24 THEN {} ELSE {"createCipheriv"}
  ELSE IF kind = "lm2"
    THEN IF Len(response) # 24 THEN {} ELSE {"createHmac"}
  ELSE IF Len(response) < 16 + MIN_BLOB_SIZE THEN {}
  ELSE {"createHmac", "parseNTLMv2Blob"}

\* the server validates the response with the validator of its kind
Validate ==
  /\ ntlm.pc = "calculated"
  /\ ntlm' = [ntlm EXCEPT
       !.pc = "validated",
       !.calls = ValidatorCalls(ntlm.kind, ntlm.response),
       !.valid =
         CASE ntlm.kind = "lm" ->
                validateLMResponse(ntlm.response, ntlm.hash, ntlm.challenge)
           [] ntlm.kind = "ntlm" ->
                validateNTLMResponse(ntlm.response, ntlm.hash, ntlm.challenge)
           [] ntlm.kind = "lm2" ->
                validateLMv2Response(ntlm.response, ntlm.hash, ntlm.user, ntlm.domain,
                                     ntlm.challenge)
           [] OTHER ->
                validateNTLMv2Response(ntlm.response, ntlm.hash, ntlm.user, ntlm.domain,
                                       ntlm.challenge)]

NtlmInit ==
  /\ ntlm \in [hash : Hashes, user : Names, domain : Domains, challenge : Challenges,
               clientChallenge : ClientChallenges, blob : Blobs, pc : {"input"},
               kind : {"none"}, response : {<<>>}, valid : {"none"}, keys : {<<>>},
               flip : {<<>>}, resized : {FALSE}, calls : {{}}]
  /\ SubSeq(ntlm.blob, 17, 24) = ntlm.clientChallenge

\* no exchange, for the specifications of the other parts
NtlmIdle ==
  ntlm = [hash |-> <<>>, user |-> <<>>, domain |-> <<>>, challenge |-> <<>>,
          clientChallenge |-> <<>>, blob |-> <<>>, pc |-> "idle", kind |-> "none",
          response |-> <<>>, valid |-> "none", keys |-> <<>>, flip |-> <<>>,
          resized |-> FALSE, calls |-> {}]

----------------------------------------------------------------------------
(* SMBError: lib/smberror.js *)

STATUS_END_OF_FILE == "STATUS_END_OF_FILE"

STATUS_OBJECT_NAME_COLLISION == "STATUS_OBJECT_NAME_COLLISION"

STATUS_NETWORK_ACCESS_DENIED == "STATUS_NETWORK_ACCESS_DENIED"

\* errno.errno of the errno package: the code of an errno number
ErrnoTable ==
  [n \in {-1, -2, -5, -9, -13, -17, -20, -22, -4095} |->
     CASE n = -1 -> "EPERM" [] n = -2 -> "ENOENT" [] n = -5 -> "EIO"
       [] n = -9 -> "EBADF" [] n = -13 -> "EACCES" [] n = -17 -> "EEXIST"
       [] n = -20 -> "ENOTDIR" [] n = -22 -> "EINVAL" [] OTHER -> "EOF"]

\* new SMBError(status, message)
SMBError(status, message) ==
  [status |-> status,
   message |-> IF message # <<>> THEN message ELSE <<"STATUS_TO_STRING", status>>]

\* a variant of the switch of fromSystemError with the statuses of EPERM and
\* EACCES exchanged
SwappedStatusOfCode(code) ==
  CASE code = "EINVAL" -> STATUS_NOT_IMPLEMENTED
    [] code = "ENOENT" -> STATUS_NO_SUCH_FILE
    [] code = "EPERM" -> STATUS_NETWORK_ACCESS_DENIED
    [] code = "EBADF" -> STATUS_SMB_BAD_FID
    [] code = "EOF" -> STATUS_END_OF_FILE
    [] code = "EEXIST" -> STATUS_OBJECT_NAME_COLLISION
    [] code = "EACCES" -> STATUS_ACCESS_DENIED
    [] OTHER -> STATUS_UNSUCCESSFUL

\* switch (code) of fromSystemError, from the initial STATUS_UNSUCCESSFUL
StatusOfCode(code) ==
  CASE code = "EINVAL" -> STATUS_NOT_IMPLEMENTED
    [] code = "ENOENT" -> STATUS_NO_SUCH_FILE
    [] code = "EPERM" -> STATUS_ACCESS_DENIED
    [] code = "EBADF" -> STATUS_SMB_BAD_FID
    [] code = "EOF" -> STATUS_END_OF_FILE
    [] code = "EEXIST" -> STATUS_OBJECT_NAME_COLLISION
    [] code = "EACCES" -> STATUS_NETWORK_ACCESS_DENIED
    [] OTHER -> STATUS_UNSUCCESSFUL

\* SMBError.fromSystemError(err, message). An err is a string (type "string",
\* its text in message) or an object; an absent or falsy field is 0, "" or <<>>.
fromSystemError(err, message) ==
  LET known  == err.errno \in DOMAIN ErrnoTable
      coded  == err.type = "object" /\ (err.errno # 0 \/ err.code # "")
      code   == IF known THEN ErrnoTable[err.errno] ELSE err.code
      msg0   == IF err.type = "string" THEN err.message
                ELSE IF coded /\ known THEN <<"description", ErrnoTable[err.errno]>>
                ELSE IF err.message # <<>> THEN err.message
                ELSE <<"STATUS_TO_STRING", STATUS_UNSUCCESSFUL>>
      msg1   == IF coded /\ err.path # "" THEN msg0 \o <<" [", err.path, "]">> ELSE msg0
      msg2   == IF message # "" THEN msg1 \o <<" [", message, "]">> ELSE msg1
  IN SMBError(IF coded THEN StatusOfCode(code) ELSE STATUS_UNSUCCESSFUL, msg2)

\* the codes system errors carry, the last one in no table
Codes == {"EINVAL", "ENOENT", "EPERM", "EBADF", "EOF", "EEXIST", "EACCES", "EIO",
          "ENOTDIR", "EMFILE"}

\* the errno numbers system errors carry, the last one in no table
Errnos == DOMAIN ErrnoTable \cup {-24}

\* the system errors: strings, objects with neither errno nor code, and objects
\* with a code, an errno or both, the code then being the one of the errno
SystemErrors ==
  [type : {"string"}, message : {<<"SHARELIST">>, <<>>}, errno : {0}, code : {""},
   path : {""}]
  \cup
  { e \in [type : {"object"}, message : {<<>>, <<"boom">>}, errno : Errnos \cup {0},
           code : Codes \cup {""}, path : {"", "/a"}] :
      (e.errno \in DOMAIN ErrnoTable /\ e.code # "") => ErrnoTable[e.errno] = e.code }

NoSMBError == [status |-> "none", message |-> <<>>]

\* a backend maps a system error
FromSystemError ==
  /\ syserr.pc = "raised"
  /\ syserr' = [syserr EXCEPT !.pc = "mapped",
                              !.smberror = fromSystemError(syserr.err, syserr.message)]

ErrInit ==
  syserr \in [err : SystemErrors, message : {"", "open file error"}, pc : {"raised"},
              smberror : {NoSMBError}]

\* no system error, for the specifications of the other parts
ErrIdle ==
  syserr = [err |-> [type |-> "string", message |-> <<>>, errno |-> 0, code |-> "",
                     path |-> ""],
            message |-> "", pc |-> "idle", smberror |-> NoSMBError]

----------------------------------------------------------------------------
(* The share's fileCount: lib/backends/sharelist/file.js, tree.js, share.js *)

MaxShareFiles == 4

\* the folder /d with the files a and b: the names FSTree.open is called
\* with, and the names of the children the ls command gives for the folder
FilePaths == {"/d/a", "/d/b"}

Children == {"a", "b"}

CountKeys == FilePaths \cup Children

\* new FSFile(filePath, stats, tree): realPath is filePath, and
\* fileCount[realPath] is set to 0 when it is falsy and then incremented
NewFSFile(sh, filePath, from) ==
  [fileCount |-> [sh.fileCount EXCEPT ![filePath] = @ + 1],
   files |-> Append(sh.files, [realPath |-> filePath, from |-> from, closed |-> FALSE])]

RECURSIVE NewFSFiles(_, _, _)
NewFSFiles(sh, names, from) ==
  IF names = {} THEN sh
  ELSE LET n == CHOOSE x \in names : TRUE
       IN NewFSFiles(NewFSFile(sh, n, from), names \ {n}, from)

\* FSTree.open(name, cb) of a file: cb(null, new FSFile(name, resp, this))
Open(name) ==
  /\ Len(share.files) < MaxShareFiles
  /\ share' = NewFSFile(share, name, "open")

\* FSTree.list(pattern, cb) with a pattern that ends with /*:
\* resp.children.map(i => new FSFile(i.name, i, this))
List ==
  /\ Len(share.files) + Cardinality(Children) <= MaxShareFiles
  /\ share' = NewFSFiles(share, Children, "list")

\* FSFile.close(cb): closeFile(this, cb), then fileCount[realPath]--
CloseFSFile(sh, k) ==
  [sh EXCEPT !.files[k].closed = TRUE,
             !.fileCount[sh.files[k].realPath] = @ - 1]

\* CLOSE of the FID of an opened file: tree.closeFile(fid, cb)
CloseFid(k) ==
  /\ k \in 1..Len(share.files)
  /\ share.files[k].from = "open"
  /\ ~share.files[k].closed
  /\ share' = CloseFSFile(share, k)

\* new FSShare(name, config): fileCount = []
ShareInit == share = [fileCount |-> [p \in CountKeys |-> 0], files |-> <<>>]

\* no share, for the specifications of the other parts
ShareIdle == share = [fileCount |-> <<>>, files |-> <<>>]

----------------------------------------------------------------------------
(* The response to an AndX chain: the results stashed and the message encoded *)

\* the longest chain of commands, and the most bytes a READ_ANDX of it reads
MaxEncChain == 3
MaxEncRead == 2

\* SMB.COMMAND_TO_STRING read backwards: the ids of the two AndX commands
CommandId(handler) == IF handler = "READ_ANDX" THEN 46 ELSE 162

\* the commands a chain is made of: the handler and, for NT_CREATE_ANDX,
\* whether the request asks for the extended response
ChainCommands ==
  { [handler |-> "READ_ANDX", extended |-> FALSE],
    [handler |-> "NT_CREATE_ANDX", extended |-> FALSE],
    [handler |-> "NT_CREATE_ANDX", extended |-> TRUE] }

Chains == UNION { [1..n -> ChainCommands] : n \in 1..MaxEncChain }

\* the fields of the request of command i of a chain that its result is built
\* from: the andX fields name the command after it
ChainRequest(chain, i) ==
  [andXCommand |-> IF i < Len(chain) THEN CommandId(chain[i + 1].handler) ELSE 255,
   andXOffset |-> 0, opbatch |-> FALSE, extended |-> chain[i].extended]

\* the result the handler of command i calls back with: READ_ANDX after n
\* bytes were read, NT_CREATE_ANDX after the file was opened. The data of
\* NT_CREATE_ANDX is utils.EMPTY_BUFFER, the buffer of no bytes.
ChainResult(chain, i, n) ==
  LET r == ChainRequest(chain, i)
  IN IF chain[i].handler = "READ_ANDX"
       THEN ReadAndxResult(r, n, [j \in 1..n |-> 64 + j])
       ELSE [buildResult(r, CHOOSE f \in Files : ~f.isDirectory /\ ~f.namedPipe)
               EXCEPT !.data = <<>>]

\* the callback of a handler that succeeded: the result is stashed in cmd
StashResult(n) ==
  /\ ~reply.sent
  /\ Len(reply.stash) < Len(reply.chain)
  /\ LET i == Len(reply.stash) + 1
         result == ChainResult(reply.chain, i, n)
         cmd == [commandId |-> CommandId(reply.chain[i].handler),
                 params |-> result.params,
                 wordCount |-> IF "wordCount" \in DOMAIN result
                                 THEN result.wordCount
                                 ELSE Len(result.params) \div 2,
                 data |-> result.data]
     IN /\ reply.chain[i].handler = "READ_ANDX" \/ n = 0
        /\ reply' = [reply EXCEPT !.stash = Append(@, cmd)]

\* the fixed header of 32 bytes: the magic 0xFF 'S' 'M' 'B', the command id,
\* and the other fields, which no offset depends on
Header(commandId) == <<255, 83, 77, 66, commandId>> \o Pad(27)

\* the bytes a command takes: wordCount, params, byteCount, data
CommandLength(cmd) == 1 + Len(cmd.params) + 2 + Len(cmd.data)

\* message.encode, the commands: each is serialised in order, and the
\* nextOffset of an AndX command that has a successor is set to the absolute
\* start of that successor
RECURSIVE encodeCommands(_, _)
encodeCommands(cmds, offset) ==
  IF Len(cmds) = 0 THEN <<>>
  ELSE LET cmd == Head(cmds)
           next == offset + CommandLength(cmd)
           params == IF Len(cmds) > 1
                       THEN SubSeq(cmd.params, 1, 2) \o Word16LE(next)
                              \o SubSeq(cmd.params, 5, Len(cmd.params))
                       ELSE cmd.params
       IN Word8(cmd.wordCount) \o params \o Word16LE(Len(cmd.data)) \o cmd.data
            \o encodeCommands(Tail(cmds), next)

\* message.encode(msg)
encode(cmds) ==
  LET header == Header(cmds[1].commandId)
  IN header \o encodeCommands(cmds, Len(header))

\* the final callback of async.eachSeries without an error: sendResponse
SendResponse ==
  /\ ~reply.sent
  /\ Len(reply.stash) = Len(reply.chain)
  /\ reply' = [reply EXCEPT !.sent = TRUE, !.out = encode(reply.stash)]

EncInit == reply \in [chain : Chains, stash : {<<>>}, sent : {FALSE}, out : {<<>>}]

EncIdle == reply = [chain |-> <<>>, stash |-> <<>>, sent |-> FALSE, out |-> <<>>]

----------------------------------------------------------------------------
(* Specifications *)

\* the dispatcher with no message, for the specifications of the other parts
DispIdle == DispInit({}, MaxChain)

\* no mutation called, for the specifications of the other parts
MutIdle == MutInit

\* one message on the connection
Init == DispInit({"A"}, MaxChain) /\ exited = FALSE /\ TreeIdle /\ MutIdle /\ HandlerIdle /\ ReadIdle /\ NtlmIdle /\ ErrIdle /\ ShareIdle /\ EncIdle /\ TaskIdle

Next ==
  \/ \E m \in DOMAIN msgs : handleRequest(m) /\ UNCHANGED <<mutVars, handlerVars, readVars, ntlmVars, errVars, shareVars, encVars, taskVars, treeVars>>
  \/ \E m \in DOMAIN msgs : \E i \in msgs[m].inflight : \E r \in HandlerResults :
       Continue(m, i, r) /\ UNCHANGED <<mutVars, handlerVars, readVars, ntlmVars, errVars, shareVars, encVars, taskVars, treeVars>>

Spec == Init /\ [][Next]_vars

\* two messages on the connection
ConnInit == DispInit({"A", "B"}, ConnMaxChain) /\ exited = FALSE /\ TreeIdle /\ MutIdle /\ HandlerIdle /\ ReadIdle /\ NtlmIdle /\ ErrIdle /\ ShareIdle /\ EncIdle /\ TaskIdle

SpecConn == ConnInit /\ [][Next]_vars

\* mutations called on the sharelist backend
InitMut == MutInit /\ exited = FALSE /\ TreeIdle /\ DispIdle /\ HandlerIdle /\ ReadIdle /\ NtlmIdle /\ ErrIdle /\ ShareIdle /\ EncIdle /\ TaskIdle

NextMut ==
  \/ \E op \in Mutations : Mutate(op) /\ UNCHANGED <<dispVars, handlerVars, readVars, ntlmVars, errVars, shareVars, encVars, taskVars, treeVars>>
  \/ RunMutationTick /\ UNCHANGED <<dispVars, handlerVars, readVars, ntlmVars, errVars, shareVars, encVars, taskVars, treeVars>>

SpecMut == InitMut /\ [][NextMut]_vars

\* one command handler invoked on one request
InitHandler == HandlerInit /\ exited = FALSE /\ TreeIdle /\ DispIdle /\ MutIdle /\ ReadIdle /\ NtlmIdle /\ ErrIdle /\ ShareIdle /\ EncIdle /\ TaskIdle

NextHandler ==
  \/ Handle /\ UNCHANGED <<dispVars, exited, mutVars, readVars, ntlmVars, errVars, shareVars, encVars, taskVars, treeVars>>
  \/ HandlerTick /\ UNCHANGED <<dispVars, exited, mutVars, readVars, ntlmVars, errVars, shareVars, encVars, taskVars, treeVars>>
  \/ \E o \in Outcomes : OperationDone(o) /\ UNCHANGED <<dispVars, exited, mutVars, readVars, ntlmVars, errVars, shareVars, encVars, taskVars, treeVars>>
  \/ \E n \in ReadCounts : ReadDone(n) /\ UNCHANGED <<dispVars, exited, mutVars, readVars, ntlmVars, errVars, shareVars, encVars, taskVars, treeVars>>
  \/ \E f \in Files : CreateDone(f) /\ UNCHANGED <<dispVars, exited, mutVars, readVars, ntlmVars, errVars, shareVars, encVars, taskVars, treeVars>>
  \/ \E n \in 0..MaxFiles : ListDone(n) /\ UNCHANGED <<dispVars, exited, mutVars, readVars, ntlmVars, errVars, shareVars, encVars, taskVars, treeVars>>
  \/ \E o \in Outcomes : DeleteDone(o) /\ UNCHANGED <<dispVars, exited, mutVars, readVars, ntlmVars, errVars, shareVars, encVars, taskVars, treeVars>>

SpecHandler == InitHandler /\ [][NextHandler]_vars

\* one opened file of the sharelist backend, read and closed
InitRead == ReadInit /\ exited = FALSE /\ TreeIdle /\ DispIdle /\ MutIdle /\ HandlerIdle /\ NtlmIdle /\ ErrIdle /\ ShareIdle /\ EncIdle /\ TaskIdle

NextRead ==
  \/ \E p \in LastPosition..FileSize : \E n \in 0..MaxLen :
       readFile(p, n) /\ UNCHANGED <<dispVars, exited, mutVars, handlerVars, ntlmVars, errVars, shareVars, encVars, taskVars, treeVars>>
  \/ \E k \in 1..Len(reads) : \E ok \in BOOLEAN :
       fsOpenDone(k, ok) /\ UNCHANGED <<dispVars, exited, mutVars, handlerVars, ntlmVars, errVars, shareVars, encVars, taskVars, treeVars>>
  \/ \E k \in 1..Len(reads) :
       fsReadDone(k) /\ UNCHANGED <<dispVars, exited, mutVars, handlerVars, ntlmVars, errVars, shareVars, encVars, taskVars, treeVars>>
  \/ \E k \in 1..Len(rects) : \E st \in {PARTIAL_CONTENT, OK_STATUS} :
       Response(k, st) /\ UNCHANGED <<dispVars, exited, mutVars, handlerVars, ntlmVars, errVars, shareVars, encVars, taskVars, treeVars>>
  \/ \E k \in 1..Len(rects) : \E n \in 1..MaxChunk :
       Data(k, n) /\ UNCHANGED <<dispVars, exited, mutVars, handlerVars, ntlmVars, errVars, shareVars, encVars, taskVars, treeVars>>
  \/ \E k \in 1..Len(rects) :
       End(k) /\ UNCHANGED <<dispVars, exited, mutVars, handlerVars, ntlmVars, errVars, shareVars, encVars, taskVars, treeVars>>
  \/ closeFile /\ UNCHANGED <<dispVars, exited, mutVars, handlerVars, ntlmVars, errVars, shareVars, encVars, taskVars, treeVars>>
  \/ \E k \in 1..Len(rects) :
       TransportError(k) /\ UNCHANGED <<dispVars, mutVars, handlerVars, ntlmVars, errVars, shareVars, encVars, taskVars, treeVars>>

SpecRead == InitRead /\ [][NextRead]_vars

\* one Rectifier, driven through when, close and the events of its upstream;
\* the positions of the reads never decrease
InitRect ==
  /\ \E o \in 0..MaxOffset : RectInit(FileSize, o)
  /\ exited = FALSE /\ TreeIdle /\ DispIdle /\ MutIdle /\ HandlerIdle /\ NtlmIdle /\ ErrIdle /\ ShareIdle /\ EncIdle /\ TaskIdle

NextRect ==
  \/ \E p \in LastPosition..FileSize : \E n \in 0..MaxLen : \E o \in 0..MaxOffset :
       When(1, p, n, o) /\ UNCHANGED <<dispVars, exited, mutVars, handlerVars, ntlmVars, errVars, shareVars, encVars, taskVars, treeVars>>
  \/ \E st \in {PARTIAL_CONTENT, OK_STATUS} :
       Response(1, st) /\ UNCHANGED <<dispVars, exited, mutVars, handlerVars, ntlmVars, errVars, shareVars, encVars, taskVars, treeVars>>
  \/ \E n \in 1..MaxChunk :
       Data(1, n) /\ UNCHANGED <<dispVars, exited, mutVars, handlerVars, ntlmVars, errVars, shareVars, encVars, taskVars, treeVars>>
  \/ End(1) /\ UNCHANGED <<dispVars, exited, mutVars, handlerVars, ntlmVars, errVars, shareVars, encVars, taskVars, treeVars>>
  \/ Close(1) /\ UNCHANGED <<dispVars, exited, mutVars, handlerVars, ntlmVars, errVars, shareVars, encVars, taskVars, treeVars>>

SpecRect == InitRect /\ [][NextRect]_vars

\* one Rectifier for a file larger than the look-ahead; the upstream delivers
\* chunks of 1 MiB
InitFlow ==
  /\ RectInit(FlowSize * MiB, 0)
  /\ exited = FALSE /\ TreeIdle /\ DispIdle /\ MutIdle /\ HandlerIdle /\ NtlmIdle /\ ErrIdle /\ ShareIdle /\ EncIdle /\ TaskIdle

NextFlow ==
  \/ \E p \in 0..FlowSize : \E n \in FlowLengths :
       When(1, p * MiB, n, 0) /\ UNCHANGED <<dispVars, exited, mutVars, handlerVars, ntlmVars, errVars, shareVars, encVars, taskVars, treeVars>>
  \/ \E st \in {PARTIAL_CONTENT, OK_STATUS} :
       Response(1, st) /\ UNCHANGED <<dispVars, exited, mutVars, handlerVars, ntlmVars, errVars, shareVars, encVars, taskVars, treeVars>>
  \/ Data(1, MiB) /\ UNCHANGED <<dispVars, exited, mutVars, handlerVars, ntlmVars, errVars, shareVars, encVars, taskVars, treeVars>>
  \/ End(1) /\ UNCHANGED <<dispVars, exited, mutVars, handlerVars, ntlmVars, errVars, shareVars, encVars, taskVars, treeVars>>

SpecFlow == InitFlow /\ [][NextFlow]_vars

\* the upstream of Rectifier 1 can answer
CanRespond ==
  /\ ~exited
  /\ rects[1].req.issued /\ ~rects[1].req.responded /\ ~rects[1].req.aborted

\* the upstream of Rectifier 1 has answered and is neither paused, aborted nor
\* ended
Flowing ==
  /\ ~exited
  /\ rects[1].req.responded /\ ~rects[1].req.aborted /\ ~rects[1].req.paused
  /\ ~rects[1].req.ended

\* The upstream keeps delivering: weak fairness of its answer, of its chunks
\* and of its end, each written out with the guard of the action (Response,
\* Data, End) for its enabledness and with the field only it changes for its
\* step.
FairFlow ==
  /\ \/ []<>(~CanRespond)
     \/ []<><<rects'[1].req.responded /\ ~rects[1].req.responded>>_vars
  /\ \/ []<>(~(Flowing /\ MiB <= BodyLeft(rects[1])))
     \/ []<><<rects'[1].req.delivered # rects[1].req.delivered>>_vars
  /\ \/ []<>(~(Flowing /\ BodyLeft(rects[1]) <= 0))
     \/ []<><<rects'[1].req.ended /\ ~rects[1].req.ended>>_vars

SpecFlowFair == SpecFlow /\ FairFlow

\* the length of the longest response: 16 bytes and the longest blob
MaxResponse == 16 + 42

\* one NTLM exchange: a response is calculated, reaches the server as it is,
\* with one bit flipped or with another length, and is validated
InitNtlm ==
  /\ NtlmInit
  /\ exited = FALSE /\ TreeIdle /\ DispIdle /\ MutIdle /\ HandlerIdle /\ ReadIdle /\ ErrIdle /\ ShareIdle /\ EncIdle /\ TaskIdle

NextNtlm ==
  \/ \E kind \in Kinds :
       Calculate(kind) /\ UNCHANGED <<dispVars, exited, mutVars, handlerVars, readVars, errVars, shareVars, encVars, taskVars, treeVars>>
  \/ \E i \in 1..MaxResponse, b \in 0..7 :
       Tamper(i, b) /\ UNCHANGED <<dispVars, exited, mutVars, handlerVars, readVars, errVars, shareVars, encVars, taskVars, treeVars>>
  \/ \E n \in ResponseLengths :
       Resize(n) /\ UNCHANGED <<dispVars, exited, mutVars, handlerVars, readVars, errVars, shareVars, encVars, taskVars, treeVars>>
  \/ Validate /\ UNCHANGED <<dispVars, exited, mutVars, handlerVars, readVars, errVars, shareVars, encVars, taskVars, treeVars>>

SpecNtlm == InitNtlm /\ [][NextNtlm]_vars

\* one system error is mapped to an SMBError
InitErr ==
  /\ ErrInit
  /\ exited = FALSE /\ TreeIdle /\ DispIdle /\ MutIdle /\ HandlerIdle /\ ReadIdle /\ NtlmIdle
  /\ ShareIdle /\ EncIdle /\ TaskIdle

NextErr ==
  FromSystemError /\ UNCHANGED <<dispVars, exited, mutVars, handlerVars, readVars, ntlmVars, shareVars, encVars, taskVars, treeVars>>

SpecErr == InitErr /\ [][NextErr]_vars

\* files of a share are opened, listed and closed
InitShare ==
  /\ ShareInit
  /\ exited = FALSE /\ TreeIdle /\ DispIdle /\ MutIdle /\ HandlerIdle /\ ReadIdle /\ NtlmIdle
  /\ ErrIdle /\ EncIdle /\ TaskIdle

NextShare ==
  \/ \E name \in FilePaths :
       Open(name)
       /\ UNCHANGED <<dispVars, exited, mutVars, handlerVars, readVars, ntlmVars, errVars, encVars, taskVars, treeVars>>
  \/ List /\ UNCHANGED <<dispVars, exited, mutVars, handlerVars, readVars, ntlmVars, errVars, encVars, taskVars, treeVars>>
  \/ \E k \in 1..MaxShareFiles :
       CloseFid(k)
       /\ UNCHANGED <<dispVars, exited, mutVars, handlerVars, readVars, ntlmVars, errVars, encVars, taskVars, treeVars>>

SpecShare == InitShare /\ [][NextShare]_vars

\* the commands of one chain succeed in order and the response is sent
InitEnc ==
  /\ EncInit
  /\ exited = FALSE /\ TreeIdle /\ DispIdle /\ MutIdle /\ HandlerIdle /\ ReadIdle /\ NtlmIdle
  /\ ErrIdle /\ ShareIdle /\ TaskIdle

NextEnc ==
  \/ \E n \in 0..MaxEncRead :
       StashResult(n)
       /\ UNCHANGED <<dispVars, exited, mutVars, handlerVars, readVars, ntlmVars, errVars, shareVars, taskVars, treeVars>>
  \/ SendResponse
     /\ UNCHANGED <<dispVars, exited, mutVars, handlerVars, readVars, ntlmVars, errVars, shareVars, taskVars, treeVars>>

SpecEnc == InitEnc /\ [][NextEnc]_vars

\* the targets of the tasks: the first byte, the size of the file, and one
\* past its size
Targets == {1, FileSize, FileSize + 1}

\* what a waiter does when it is invoked: nothing, or when for a target
Furthers == {<<>>, <<1>>, <<FileSize + 1>>}

\* one Rectifier and any waiters: when, close and the events of its upstream
InitTasks ==
  /\ RectInit(FileSize, 0)
  /\ waiters = <<>>
  /\ exited = FALSE /\ TreeIdle /\ DispIdle /\ MutIdle /\ HandlerIdle /\ NtlmIdle /\ ErrIdle
  /\ ShareIdle /\ EncIdle

NextTasks ==
  \/ \E target \in Targets : \E further \in Furthers :
       WhenOf(target, further) /\ UNCHANGED <<dispVars, exited, mutVars, handlerVars, ntlmVars, errVars, shareVars, encVars, treeVars>>
  \/ \E st \in {PARTIAL_CONTENT, OK_STATUS} :
       Response(1, st) /\ UNCHANGED waiters /\ UNCHANGED <<dispVars, exited, mutVars, handlerVars, ntlmVars, errVars, shareVars, encVars, treeVars>>
  \/ \E n \in 1..MaxChunk :
       DataOf(n) /\ UNCHANGED <<dispVars, exited, mutVars, handlerVars, ntlmVars, errVars, shareVars, encVars, treeVars>>
  \/ EndOf /\ UNCHANGED <<dispVars, exited, mutVars, handlerVars, ntlmVars, errVars, shareVars, encVars, treeVars>>
  \/ Close(1) /\ UNCHANGED waiters /\ UNCHANGED <<dispVars, exited, mutVars, handlerVars, ntlmVars, errVars, shareVars, encVars, treeVars>>

SpecTasks == InitTasks /\ [][NextTasks]_vars

\* calls of FSTree.open and FSTree.list, and the promises of ls settling
InitTree ==
  /\ tcalls = <<>>
  /\ exited = FALSE /\ DispIdle /\ MutIdle /\ HandlerIdle /\ ReadIdle /\ NtlmIdle
  /\ ErrIdle /\ ShareIdle /\ EncIdle /\ TaskIdle

NextTree ==
  \/ \E ls \in LsOutcomes : \E raises \in BOOLEAN :
       TreeOpen(ls, raises) /\ UNCHANGED <<dispVars, exited, mutVars, handlerVars, readVars, ntlmVars, errVars, shareVars, encVars, taskVars>>
  \/ \E star \in BOOLEAN : \E ls \in LsOutcomes : \E raises \in BOOLEAN :
       TreeList(star, ls, raises) /\ UNCHANGED <<dispVars, exited, mutVars, handlerVars, readVars, ntlmVars, errVars, shareVars, encVars, taskVars>>
  \/ \E k \in 1..MaxTreeCalls : OnFulfilled(k) /\ UNCHANGED <<dispVars, exited, mutVars, handlerVars, readVars, ntlmVars, errVars, shareVars, encVars, taskVars>>
  \/ \E k \in 1..MaxTreeCalls : OnRejected(k) /\ UNCHANGED <<dispVars, exited, mutVars, handlerVars, readVars, ntlmVars, errVars, shareVars, encVars, taskVars>>
  \/ \E k \in 1..MaxTreeCalls : OnCatch(k) /\ UNCHANGED <<dispVars, exited, mutVars, handlerVars, readVars, ntlmVars, errVars, shareVars, encVars, taskVars>>

SpecTree == InitTree /\ [][NextTree]_vars

----------------------------------------------------------------------------
(* Properties of the dispatcher *)

Success(st) == st \in {STATUS_SUCCESS, STATUS_MORE_PROCESSING_REQUIRED}

\* the continuation call was made by a handler and reports a failure
HandlerFailure(c) == c.r \in HandlerResults /\ c.r # NoResult /\ ~Success(c.r.status)

\* the commands for which the per-command callback has been invoked
Continued(mr) == { mr.conts[k].i : k \in 1..Len(mr.conts) }

\* C1: within one message the handlers run strictly in chain order: a handler
\* is started only after every earlier command's continuation was invoked, and
\* at most one handler of the message is in flight.
C1_HandlersInChainOrder ==
  \A m \in DOMAIN msgs :
    LET mr == msgs[m] IN
      /\ Cardinality(mr.inflight) <= 1
      /\ \A a, b \in 1..Len(mr.started) : a < b => mr.started[a] < mr.started[b]
      /\ \A a \in 1..Len(mr.started) :
           \A i \in 1..(mr.started[a] - 1) : i \in Continued(mr)

\* a second handler is in flight after the first one continued
C1_Witness ==
  \E m \in DOMAIN msgs :
    /\ Len(msgs[m].started) >= 2
    /\ msgs[m].inflight = {2}
    /\ 1 \in Continued(msgs[m])

\* C2: a failure reported by a handler ends the chain: no later command is
\* dispatched, the results committed for the earlier commands are in the
\* response, and the one response carries the failing status.
C2_FailureAbortsChain ==
  \A m \in DOMAIN msgs :
    LET mr == msgs[m] IN
      \A k \in 1..Len(mr.conts) :
        HandlerFailure(mr.conts[k]) =>
          /\ k = Len(mr.conts)
          /\ mr.inflight = {}
          /\ \A a \in 1..Len(mr.started) : mr.started[a] <= mr.conts[k].i
          /\ Len(mr.resp) = 1
          /\ mr.resp[1].status = mr.conts[k].r.status
          /\ \A j \in 1..(k - 1) :
               Success(mr.conts[j].r.status) =>
                 /\ mr.resp[1].commands[mr.conts[j].i].params = mr.conts[j].r.params
                 /\ mr.resp[1].commands[mr.conts[j].i].data = mr.conts[j].r.data

\* a chain whose first command succeeded and whose second command failed
C2_Witness ==
  \E m \in DOMAIN msgs :
    /\ Len(msgs[m].conts) = 2
    /\ Len(msgs[m].commands) = 3
    /\ Success(msgs[m].conts[1].r.status)
    /\ HandlerFailure(msgs[m].conts[2])

\* C3 (as claimed): in an error response the params and data of the failed
\* command, in the message passed to encode, are empty.
C3_FailedCommandIsEmpty ==
  \A m \in DOMAIN msgs :
    LET mr == msgs[m] IN
      (Len(mr.resp) >= 1 /\ Len(mr.conts) >= 1
         /\ ~Success(mr.conts[Len(mr.conts)].r.status)
         /\ mr.conts[Len(mr.conts)].r # NoResult) =>
        LET failed == mr.resp[1].commands[mr.conts[Len(mr.conts)].i]
        IN failed.params = EMPTY_BUFFER /\ failed.data = EMPTY_BUFFER

\* C4 (as claimed): after a continuation with no result the message is marked
\* processed, no later command is dispatched and no response is encoded or sent.
C4_NoResultStopsProcessing ==
  \A m \in DOMAIN msgs :
    LET mr == msgs[m] IN
      \A k \in 1..Len(mr.conts) :
        mr.conts[k].r = NoResult =>
          /\ mr.processed
          /\ k = Len(mr.conts)
          /\ \A a \in 1..Len(mr.started) : mr.started[a] <= mr.conts[k].i
          /\ mr.resp = <<>>

\* C5 (as claimed): an unknown command id gives one call of the per-command
\* callback, one response with STATUS_SMB_BAD_COMMAND, and no fault.
C5_UnknownCommandBreaks ==
  \A m \in DOMAIN msgs :
    LET mr == msgs[m] IN
      \A k \in 1..Len(mr.conts) :
        mr.commands[mr.conts[k].i].kind = "unknown" =>
          /\ Cardinality({ j \in 1..Len(mr.conts) : mr.conts[j].i = mr.conts[k].i }) = 1
          /\ mr.conts[k].i \notin { mr.started[a] : a \in 1..Len(mr.started) }
          /\ Len(mr.resp) = 1
          /\ mr.resp[1].status = STATUS_SMB_BAD_COMMAND
          /\ mr.fault = "none"

\* C6: MORE_PROCESSING_REQUIRED is no error: the result is committed as a
\* success is, header.status becomes MORE_PROCESSING_REQUIRED, the next command
\* is dispatched, and the one response carries MORE_PROCESSING_REQUIRED when all
\* commands succeed and the failing status when a later one fails.
C6_MoreProcessingContinues ==
  \A m \in DOMAIN msgs :
    LET mr   == msgs[m]
        last == mr.conts[Len(mr.conts)]
    IN
      \A k \in 1..Len(mr.conts) :
        mr.conts[k].r.status = STATUS_MORE_PROCESSING_REQUIRED =>
          LET i == mr.conts[k].i IN
            /\ mr.commands[i].params = mr.conts[k].r.params
            /\ mr.commands[i].data = mr.conts[k].r.data
            /\ mr.pc # "done" => mr.status = STATUS_MORE_PROCESSING_REQUIRED
            /\ i < Len(mr.commands) => (k < Len(mr.conts) \/ (i + 1) \in mr.inflight)
            /\ (mr.pc = "done" /\ \A j \in 1..Len(mr.conts) : Success(mr.conts[j].r.status)) =>
                 /\ Len(mr.resp) = 1
                 /\ mr.resp[1].status = STATUS_MORE_PROCESSING_REQUIRED
            /\ (mr.pc = "done" /\ ~Success(last.r.status) /\ last.r # NoResult) =>
                 /\ Len(mr.resp) = 1
                 /\ mr.resp[1].status = last.r.status

\* a chain answered with MORE_PROCESSING_REQUIRED whose later command succeeded
C6_Witness ==
  \E m \in DOMAIN msgs :
    /\ msgs[m].pc = "done"
    /\ Len(msgs[m].conts) >= 2
    /\ msgs[m].conts[1].r.status = STATUS_MORE_PROCESSING_REQUIRED
    /\ msgs[m].conts[2].r.status = STATUS_SUCCESS
    /\ Len(msgs[m].resp) = 1
    /\ msgs[m].resp[1].status = STATUS_MORE_PROCESSING_REQUIRED

\* the place of message m in a log of message ids
Place(log, m) == CHOOSE k \in 1..Len(log) : log[k] = m /\ \A j \in 1..(k - 1) : log[j] # m

Logged(log, m) == \E k \in 1..Len(log) : log[k] = m

\* C7 (as claimed): of two messages handed to handleRequest on one connection,
\* the response of the first is passed to sendRawMessage before the response of
\* the second.
C7_ResponsesInArrivalOrder ==
  \A a, b \in DOMAIN msgs :
    (Logged(arrived, a) /\ Logged(arrived, b) /\ Place(arrived, a) < Place(arrived, b)
       /\ Logged(sendLog, a) /\ Logged(sendLog, b)) =>
      Place(sendLog, a) < Place(sendLog, b)

----------------------------------------------------------------------------
(* Properties of the backend's mutations *)

\* C8 (as claimed): every mutation of the read-only backend invokes its
\* callback exactly once with STATUS_NOT_SUPPORTED, changes no file or tree
\* state, and raises no fault that ends the server.
C8_MutationsRejected ==
  /\ backend = BackendInitial
  /\ \A k \in 1..Len(mutCalls) :
       mutCalls[k].pc = "ran" =>
         /\ mutCalls[k].cbCalls = 1
         /\ mutCalls[k].cbStatus = STATUS_NOT_SUPPORTED
         /\ mutCalls[k].fault = "none"
         /\ ~exited

----------------------------------------------------------------------------
(* Properties of the command handlers *)

\* the handlers whose request names a FID that must resolve
ReferencesFid(r) == r.handler \in {"READ_ANDX", "CLOSE", "TRANS2_SET_FILE_INFORMATION"}

\* C9 (as claimed): in every handler a TID that resolves to no tree gives
\* STATUS_SMB_BAD_TID whatever the other request fields are, and a FID that
\* resolves to no file (the tree resolving) gives STATUS_SMB_BAD_FID; in both
\* cases with empty params and data and no File or Tree operation invoked.
C9_PreflightPrecedence ==
  hpc \in {"tick", "op", "each", "done"} =>
    /\ ~hreq.tidOk =>
         /\ hresult = ErrorResult(STATUS_SMB_BAD_TID)
         /\ hops = <<>>
    /\ (hreq.tidOk /\ ReferencesFid(hreq) /\ ~hreq.fidOk) =>
         /\ hresult = ErrorResult(STATUS_SMB_BAD_FID)
         /\ hops = <<>>

----------------------------------------------------------------------------
(* Properties of readFile and the Rectifier *)

\* the HTTP GETs issued for the file
Gets == { k \in 1..Len(rects) : rects[k].req.issued }

\* C10 (as claimed): an opened remote file read at positions that never
\* decrease is served by one Rectifier and at most one HTTP GET, however many
\* reads are made.
C10_SingleStream ==
  (file.outputType = "url"
     /\ \A a, b \in 1..Len(reads) : a < b => reads[a].position <= reads[b].position) =>
    /\ Len(rects) <= 1
    /\ Cardinality(Gets) <= 1
    /\ reads # <<>> => Len(rects) = 1

\* the bytes the callback of read k was given: bytesRead bytes of the buffer,
\* from the offset of the destination on
Delivered(k) ==
  [j \in 1..reads[k].bytesRead |->
     IF reads[k].offset + j <= Len(reads[k].buffer)
       THEN reads[k].buffer[reads[k].offset + j] ELSE "unwritten"]

\* the bytes of the file from position on, n of them
FileBytes(position, n) == [j \in 1..n |-> position + j - 1]

\* the reads of Rectifier 1 start at its offset and never overlap (a read
\* starts at or after the end of the one before), each is of at least one byte
\* into the start of its buffer, and the origin honours the range
PlainReads ==
  /\ rects[1].req.status = PARTIAL_CONTENT
  /\ reads # <<>> => reads[1].position = rects[1].offset
  /\ \A k \in 1..Len(reads) : reads[k].offset = 0 /\ reads[k].length > 0
  /\ \A k \in 1..Len(reads) - 1 :
       reads[k + 1].position >= reads[k].position + reads[k].length

\* C11 (as claimed): a completed read at position p receives the bytes of the
\* file from p on, also when the positions of successive reads of the
\* Rectifier leave a gap.
C11_ReadsServeTheirRange ==
  PlainReads =>
    \A k \in 1..Len(reads) :
      reads[k].pc = "done" =>
        Delivered(k) = FileBytes(reads[k].position, reads[k].bytesRead)

\* the sum of the sizes of the chunks of a queue
RECURSIVE SumLen(_)
SumLen(bufs) == IF bufs = <<>> THEN 0 ELSE Head(bufs).len + SumLen(Tail(bufs))

\* C12 (as claimed): in every state of a Rectifier, after any chunk arrivals
\* and reads, length is the sum of the sizes of the chunks in buffers.
C12_LengthIsBuffered ==
  \A k \in 1..Len(rects) : rects[k].length = SumLen(rects[k].buffers)

\* byte j (from 1) of the stream held by a queue of chunks
RECURSIVE ByteAt(_, _)
ByteAt(bufs, j) ==
  IF bufs = <<>> THEN "none"
  ELSE IF j <= Head(bufs).len THEN Head(bufs).from + j - 1
  ELSE ByteAt(Tail(bufs), j - Head(bufs).len)

\* C13 (as claimed): Rectifier.read clamps the length to what is buffered,
\* removes exactly that many bytes from the head of the chunk queue, copies
\* them in stream order to the buffer from the destination offset on, and
\* calls back once, for every destination offset.
C13_ReadConsumesHead ==
  \A k \in 1..Len(reads) :
    (reads[k].pc = "done" /\ reads[k].rect # 0 /\ reads[k].err = "none") =>
      /\ reads[k].cbCalls = 1
      /\ reads[k].bytesRead =
           (IF reads[k].length > SumLen(reads[k].queued)
              THEN SumLen(reads[k].queued) ELSE reads[k].length)
      /\ SumLen(reads[k].queued) - SumLen(reads[k].left) = reads[k].bytesRead
      /\ Delivered(k) = [j \in 1..reads[k].bytesRead |-> ByteAt(reads[k].queued, j)]

\* what back-pressure asks of a step of Rectifier 1 that leaves it at position
\* pos with far the largest target of its tasks
Regulated(pos, far) ==
  LET r == rects[1]
  IN /\ pos - far > r.cacheSize => rects'[1].paused
     /\ 5 * (pos - far) < r.cacheSize => ~rects'[1].paused
     /\ (pos - far <= r.cacheSize /\ 5 * (pos - far) >= r.cacheSize) =>
          rects'[1].paused = r.paused
     /\ rects'[1].paused = rects'[1].req.paused

\* C14: after every chunk arrival and every when(), the upstream is paused if
\* position - farthest > cacheSize, running if position - farthest <
\* cacheSize/5, and as it was in between, farthest being the largest target of
\* the tasks registered (0 without any); the paused flag is the paused state of
\* the request; and a waiter whose target the position has passed fires at once.
C14_BackPressure ==
  /\ rects[1].paused = rects[1].req.paused
  /\ [][ /\ rects'[1].req.delivered # rects[1].req.delivered =>
              Regulated(rects'[1].position, Farthest(rects[1].tasks))
         /\ Len(reads') = Len(reads) + 1 =>
              LET n == Len(reads')
                  target == reads'[n].position + reads'[n].length
              IN /\ Regulated(rects[1].position,
                              Max(Farthest(rects[1].tasks), target))
                 /\ target <= rects[1].position => reads'[n].pc = "done"
       ]_vars

\* a waiter registered at target 100 with the position at 3 MiB has fired and
\* the upstream is still paused
C14_Witness ==
  /\ rects[1].cacheSize = 2 * MiB
  /\ rects[1].position = 3 * MiB
  /\ rects[1].paused /\ rects[1].req.paused
  /\ \E k \in 1..Len(reads) :
       /\ reads[k].position + reads[k].length = 100
       /\ reads[k].whilePaused
       /\ reads[k].pc = "done"

\* read k was registered while the upstream was paused, for a target beyond
\* the position of the Rectifier
LateWaiter(k) ==
  /\ k <= Len(reads)
  /\ reads[k].whilePaused
  /\ reads[k].position + reads[k].length > reads[k].streamAt

\* C15: while the upstream is paused the position does not advance; a waiter
\* registered during the pause is invoked at once when its target is not
\* beyond the position, and otherwise its registration resumes the upstream
\* and it is invoked eventually, the upstream delivering fairly.
C15_PausedWaitersFire ==
  /\ [][ /\ rects[1].req.paused => rects'[1].position <= rects[1].position
         /\ (rects[1].req.paused /\ Len(reads') = Len(reads) + 1) =>
              LET n == Len(reads')
              IN IF reads'[n].position + reads'[n].length <= rects[1].position
                   THEN reads'[n].pc = "done"
                   ELSE ~rects'[1].req.paused
       ]_vars
  /\ \A k \in 1..MaxReads : LateWaiter(k) ~> (k <= Len(reads) /\ reads[k].pc = "done")

\* a waiter registered during a pause beyond the position has been invoked
C15_Witness ==
  \E k \in 1..MaxReads : LateWaiter(k) /\ reads[k].pc = "done" /\ reads[k].cbCalls = 1

\* the origin of Rectifier k answered with a status other than 206
WholeFile(k) == rects[k].req.responded /\ rects[k].req.status # PARTIAL_CONTENT

\* C16 (as claimed): when the origin answers with a status other than 206 the
\* Rectifier restarts at byte 0 and serves the whole body from there, and a
\* read whose position is not where the head of the stream is fails with
\* STATUS_UNSUCCESSFUL instead of being given bytes of another offset.
C16_MisplacedReadFails ==
  /\ \A k \in 1..Len(rects) :
       WholeFile(k) => rects[k].offset = 0 /\ rects[k].position = rects[k].req.delivered
  /\ \A k \in 1..Len(reads) :
       (/\ reads[k].pc = "done"
        /\ reads[k].rect # 0
        /\ WholeFile(reads[k].rect)
        /\ reads[k].queued # <<>>
        /\ ByteAt(reads[k].queued, 1) # reads[k].position) =>
         /\ reads[k].err = STATUS_UNSUCCESSFUL
         /\ reads[k].bytesRead = 0

\* C17 (as claimed): when the transport of the upstream fails before the
\* stream has ended, every waiter of the Rectifier is failed with an NTSTATUS
\* error, the Rectifier ends up closed with no waiter left, and the server
\* keeps running.
C17_TransportErrorFailsWaiters ==
  \A k \in 1..Len(rects) :
    (rects[k].req.failed /\ ~rects[k].loaded) =>
      /\ ~exited
      /\ rects[k].closed
      /\ rects[k].tasks = <<>>
      /\ \A i \in 1..Len(reads) :
           (reads[i].rect = k /\ reads[i].bytesRead = 0 /\ reads[i].length > 0) =>
             reads[i].pc = "done" /\ reads[i].err # "none"

----------------------------------------------------------------------------
(* Properties of the results of READ_ANDX and NT_CREATE_ANDX *)

\* the little-endian 16-bit word at byte offset off (from 0) of a buffer
Word16At(buf, off) == buf[off + 1] + 256 * buf[off + 2]

\* the handler called back with a result of status STATUS_SUCCESS
Succeeded(h) == hpc = "done" /\ hreq.handler = h /\ hresult.status = STATUS_SUCCESS

\* C18: a successful READ_ANDX whose file read gave n bytes answers with 24
\* bytes of params holding DataLength = n mod 65536 (at byte 10), DataOffset =
\* 60 (at byte 12) and DataLengthHigh = n div 65536 (at byte 14), and with n + 1
\* bytes of data: a zero pad byte, then the n bytes read, in order.
C18_ReadAndxResponse ==
  Succeeded("READ_ANDX") =>
    LET n == hback.bytesRead
    IN /\ n <= hreq.maxCount
       /\ Len(hresult.params) = 24
       /\ Word16At(hresult.params, 10) = n % 65536
       /\ Word16At(hresult.params, 12) = 60
       /\ Word16At(hresult.params, 14) = n \div 65536
       /\ Len(hresult.data) = n + 1
       /\ hresult.data[1] = 0
       /\ \A j \in 1..n : hresult.data[j + 1] = FileByte(hreq.offset + j - 1)

\* 3 bytes read at offset 0 with maxCount 1024: DataLength 3, 4 bytes of data;
\* and a read of more than 65535 bytes was answered too
C18_Witness ==
  /\ Succeeded("READ_ANDX")
  /\ \/ /\ hback.bytesRead = 3 /\ hreq.maxCount = 1024 /\ hreq.offset = 0
        /\ Word16At(hresult.params, 10) = 3
        /\ Len(hresult.data) = 4
     \/ /\ hback.bytesRead = 65539
        /\ Word16At(hresult.params, 14) = 1

\* C19: a successful NT_CREATE_ANDX result has wordCount 0x2a if its params
\* are longer than 0x2a words; that is so exactly when EXTENDED_RESPONSE was
\* requested, the params then being 100 bytes; without it they are 68 bytes
\* and the result has no wordCount.
C19_WordCountOverride ==
  Succeeded("NT_CREATE_ANDX") =>
    /\ Len(hresult.params) > 2 * 42 =>
         "wordCount" \in DOMAIN hresult /\ hresult.wordCount = 42
    /\ hreq.extended <=> Len(hresult.params) > 2 * 42
    /\ hreq.extended => Len(hresult.params) = 100
    /\ ~hreq.extended =>
         Len(hresult.params) = 68 /\ "wordCount" \notin DOMAIN hresult

\* an extended response of 100 bytes with wordCount 0x2a
C19_Witness ==
  /\ Succeeded("NT_CREATE_ANDX")
  /\ hreq.extended
  /\ Len(hresult.params) = 100
  /\ hresult.wordCount = 42

----------------------------------------------------------------------------
(* Properties of NTLM *)

\* C20: each of validateLMResponse, validateNTLMResponse, validateLMv2Response
\* and validateNTLMv2Response returns true for the response the matching
\* calculate function gives from the same hash, names and challenges (for
\* NTLMv2, with a well-formed blob of at least 36 bytes).
C20_ValidatorsRoundTrip ==
  (ntlm.pc = "validated" /\ ntlm.flip = <<>> /\ ~ntlm.resized) => ntlm.valid = "true"

\* an NTLMv2 response over a blob with a target-info entry was validated, and
\* so was a response of a name in lower case
C20_Witness ==
  /\ ntlm.pc = "validated"
  /\ ntlm.kind = "ntlm2"
  /\ Len(ntlm.blob) > MIN_BLOB_SIZE
  /\ Len(ntlm.response) = 16 + Len(ntlm.blob)
  /\ toUpperCase(ntlm.user) # ntlm.user
  /\ ntlm.flip = <<>> /\ ~ntlm.resized
  /\ ntlm.valid = "true"

\* the bytes (from 1) of a response in which the blob holds the type and the
\* length of a target-info entry or of the terminator of the list
RECURSIVE InfoFields(_, _)
InfoFields(blob, off) ==
  IF off + 4 > Len(blob) THEN {}
  ELSE {16 + off + k : k \in 1..4}
         \cup (IF blob[off + 1] + 256 * blob[off + 2] = 0 THEN {}
               ELSE InfoFields(blob, off + 4 + blob[off + 3] + 256 * blob[off + 4]))

\* C21: a valid NTLMv2 response with one bit flipped in the HMAC, in the blob
\* signature or in a type, length or terminator field of the target-info list
\* makes validateNTLMv2Response return false; it never faults.
C21_BitFlipRejected ==
  (/\ ntlm.pc = "validated"
   /\ ntlm.kind = "ntlm2"
   /\ ntlm.flip # <<>>
   /\ ntlm.flip[1] \in (1..20) \cup InfoFields(ntlm.blob, 28))
  => ntlm.valid = "false"

\* the length a validator asks of a response: 24 bytes, or 52 and more
WrongLength(kind, response) ==
  IF kind = "ntlm2" THEN Len(response) < 52 ELSE Len(response) # 24

\* C22: a response of wrong length (not 24 bytes; for NTLMv2, shorter than 52
\* bytes) is answered false before any cipher or digest is made and before
\* the blob is parsed.
C22_WrongLengthRejectedUnhashed ==
  (ntlm.pc = "validated" /\ WrongLength(ntlm.kind, ntlm.response))
  => (ntlm.valid = "false" /\ ntlm.calls = {})

\* an NTLMv2 response cut to 51 bytes was rejected with no call made
C22_Witness ==
  /\ ntlm.pc = "validated"
  /\ ntlm.kind = "ntlm2"
  /\ ntlm.resized
  /\ Len(ntlm.response) = 51
  /\ ntlm.valid = "false"
  /\ ntlm.calls = {}

\* C23: calculateLMResponse and calculateNTLMResponse return 24 bytes, three
\* blocks of 8 keyed by the hash bytes 0-6, 7-13 and 14-15 with five zero
\* bytes; calculateLM2Response returns the 16 bytes of the HMAC and then the
\* 8 bytes of the client challenge.
C23_ResponseLayout ==
  (ntlm.pc = "calculated" /\ ntlm.flip = <<>> /\ ~ntlm.resized) =>
    /\ ntlm.kind \in {"lm", "ntlm"} =>
         /\ Len(ntlm.response) = 24
         /\ SubSeq(ntlm.response, 1, 8)
              = Des(expandKey(SubSeq(ntlm.hash, 1, 7)), ntlm.challenge)
         /\ SubSeq(ntlm.response, 9, 16)
              = Des(expandKey(SubSeq(ntlm.hash, 8, 14)), ntlm.challenge)
         /\ SubSeq(ntlm.response, 17, 24)
              = Des(expandKey(SubSeq(ntlm.hash, 15, 16) \o <<0, 0, 0, 0, 0>>),
                    ntlm.challenge)
    /\ ntlm.kind = "lm2" =>
         /\ Len(ntlm.response) = 24
         /\ SubSeq(ntlm.response, 1, 16)
              = Hmac(createNTLM2Hash(ntlm.hash, ntlm.user, ntlm.domain),
                     ntlm.challenge \o ntlm.clientChallenge)
         /\ SubSeq(ntlm.response, 17, 24) = ntlm.clientChallenge

\* an LMv2 response was calculated whose tail differs from its head
C23_Witness ==
  /\ ntlm.pc = "calculated"
  /\ ntlm.kind = "lm2"
  /\ ntlm.flip = <<>> /\ ~ntlm.resized
  /\ Len(ntlm.response) = 24
  /\ SubSeq(ntlm.response, 17, 24) = ntlm.clientChallenge
  /\ SubSeq(ntlm.response, 1, 8) # ntlm.clientChallenge

\* the number of 1 bits of a byte
Ones(v) == Cardinality({b \in 0..7 : (v \div Pow2(b)) % 2 = 1})

\* C24: each of the 8 bytes expandKey returns for a 7-byte key half has an
\* odd number of 1 bits.
C24_OddParityKeys ==
  \A k \in 1..Len(ntlm.keys) : \A j \in 1..8 : Ones(ntlm.keys[k][j]) % 2 = 1

----------------------------------------------------------------------------
(* Properties of SMBError *)

\* the code a system error names: its code field, or the code of its errno
NamesCode(err, code) ==
  /\ err.type = "object"
  /\ \/ err.code = code
     \/ err.errno \in DOMAIN ErrnoTable /\ ErrnoTable[err.errno] = code

----------------------------------------------------------------------------
(* Properties of the share *)

\* the files constructed for a path that are not closed
OpenFiles(p) ==
  {k \in 1..Len(share.files) : share.files[k].realPath = p /\ ~share.files[k].closed}

\* C26: fileCount[p] is the number of files constructed for p and not yet
\* closed, is never negative, and is 0 once every FID opened for p is closed:
\* a directory listing leaves no counter raised.
C26_FileCountIsRefCount ==
  \A p \in DOMAIN share.fileCount :
    /\ share.fileCount[p] = Cardinality(OpenFiles(p))
    /\ share.fileCount[p] >= 0
    /\ (\A k \in OpenFiles(p) : share.files[k].from # "open") => share.fileCount[p] = 0

----------------------------------------------------------------------------
(* Properties of CLOSE *)

\* C27: a CLOSE whose TID and FID resolve invokes the continuation exactly
\* once: the callback given to tree.closeFile has been called once when
\* closeFile has closed the file, also for a file that was never read and has
\* neither a Rectifier nor a file descriptor. No step after closeFile calls
\* the callback, so a closed file whose callback was not called never answers.
C27_CloseCallsBack ==
  /\ file.closeCalls <= 1
  /\ file.closed => file.closeCalls = 1

----------------------------------------------------------------------------
(* Further properties of the dispatcher *)

\* C28: for every message handed to handleRequest at most one response is
\* sent and cb is handed on at most once, whatever the chain holds; for a
\* message rejected for its length no handler runs and nothing is sent.
C28_AtMostOneResponse ==
  \A m \in DOMAIN msgs :
    /\ Len(msgs[m].resp) <= 1
    /\ msgs[m].cbCalls <= 1
    /\ Cardinality({k \in 1..Len(sendLog) : sendLog[k] = m}) <= 1
    /\ msgs[m].pc = "rejected" =>
         /\ msgs[m].resp = <<>>
         /\ msgs[m].started = <<>>
         /\ msgs[m].cbCalls = 1

\* a handler gave no result, a later command of the chain failed, and the one
\* response of the message was sent
C28_Witness ==
  \E m \in DOMAIN msgs :
    /\ msgs[m].pc = "done"
    /\ Len(msgs[m].commands) >= 2
    /\ Len(msgs[m].conts) >= 2
    /\ msgs[m].conts[1].r = NoResult
    /\ msgs[m].processed
    /\ Len(msgs[m].resp) = 1
    /\ msgs[m].cbCalls = 1

----------------------------------------------------------------------------
(* Further properties of READ_ANDX *)

\* C29: for a share that is no named pipe READ_ANDX asks the file for
\* low16 + 65536 * high16 bytes, for every pair of 16-bit words; the count is
\* never negative and allocating the read buffer never faults. For a named
\* pipe the count is low16.
C29_MaxCountFromBothWords ==
  (/\ hreq.handler = "READ_ANDX"
   /\ hreq.tidOk /\ hreq.fidOk /\ ~hreq.isDir
   /\ hpc # "start")
  => /\ hpc # "fault"
     /\ hreq.maxCount >= 0
     /\ hreq.maxCount = IF hreq.namedPipe THEN hreq.maxCountLow
                        ELSE hreq.maxCountLow + 65536 * hreq.maxCountHigh

----------------------------------------------------------------------------
(* Properties of the encoded response *)

\* the absolute offset at which command k of the response starts
RECURSIVE CommandStart(_, _)
CommandStart(cmds, k) ==
  IF k = 1 THEN Len(Header(cmds[1].commandId))
  ELSE CommandStart(cmds, k - 1) + CommandLength(cmds[k - 1])

\* buf.readUInt16LE(off)
ReadUInt16LE(buf, off) == buf[off + 1] + 256 * buf[off + 2]

\* C30: in the encoded response the DataOffset field of a READ_ANDX response
\* is the absolute offset, from the start of the header, of the first payload
\* byte (the byte after the pad byte) of that command's data, wherever in the
\* chain the READ_ANDX is and whatever the sizes of the responses before it.
C30_DataOffsetIsAbsolute ==
  reply.sent =>
    \A k \in 1..Len(reply.stash) :
      reply.stash[k].commandId = CommandId("READ_ANDX") =>
        LET cmdStart == CommandStart(reply.stash, k)
            paramsStart == cmdStart + 1
            dataStart == paramsStart + Len(reply.stash[k].params) + 2
        IN ReadUInt16LE(reply.out, paramsStart + 12) = dataStart + 1

----------------------------------------------------------------------------
(* Properties of the tasks of a Rectifier *)

\* the waiters that have a task on Rectifier 1
Registered == { rects[1].tasks[i].waiter : i \in DOMAIN rects[1].tasks }

\* C31: a waiter is invoked only when its task is due (target <= position, or
\* target > size and the upstream has ended), a task that is not due stays
\* registered, and each waiter is invoked at most once, also when a waiter
\* passes a further callback to when from inside its own invocation.
C31_WaiterInvokedOnceWhenDue ==
  \A k \in DOMAIN waiters :
    /\ waiters[k].calls <= 1
    /\ waiters[k].foundDue
    /\ (waiters[k].calls = 0 /\ ~rects[1].closed) => k \in Registered

----------------------------------------------------------------------------
(* Properties of FSTree.open and FSTree.list *)

\* C33: open and list invoke their callback exactly once per call for every
\* outcome of the backend - a file, a folder, a rejected ls, a listing without
\* children, a pattern that does not end with '/*' - and for a callback that
\* raises: once no handler of the call is left to run the callback has been
\* called once, and it is never called twice.
C33_TreeCallsBackOnce ==
  \A k \in DOMAIN tcalls :
    /\ tcalls[k].cbCalls <= 1
    /\ tcalls[k].pc = "settled" => tcalls[k].cbCalls = 1

----------------------------------------------------------------------------
(* Properties of CLOSE and TRANS2_SET_FILE_INFORMATION *)

\* the handler was invoked with a request of handler h whose TID and FID resolve
Resolved(h) == hreq.handler = h /\ hpc # "start" /\ hreq.tidOk /\ hreq.fidOk

C36_DispositionMarks ==
  (Resolved("TRANS2_SET_FILE_INFORMATION")
   /\ hreq.level = "FILE_DISPOSITION_INFORMATION") =>
    /\ hops = IF hreq.dataByte # 0 THEN <<"file.setDeleteOnClose">> ELSE <<>>
    /\ hresult.status = STATUS_SUCCESS

C36_Witness ==
  /\ Resolved("TRANS2_SET_FILE_INFORMATION")
  /\ hreq.level = "FILE_DISPOSITION_INFORMATION"
  /\ hpc = "done"
  /\ hreq.dataByte = 0
  /\ hops = <<>>

\* C37: FILE_ALLOCATION_INFORMATION calls file.setLength exactly when the
\* allocation size is 0 and the file is not empty, and then reports the
\* outcome of setLength; otherwise it reports STATUS_SUCCESS and invokes no
\* operation.
C37_AllocationTruncates ==
  (Resolved("TRANS2_SET_FILE_INFORMATION")
   /\ hreq.level = "FILE_ALLOCATION_INFORMATION") =>
    IF hreq.allocZero /\ ~hreq.sizeZero
      THEN /\ hops = <<"file.setLength">>
           /\ hpc \in {"op", "done"}
           /\ hpc = "done" => \E o \in Outcomes : hresult = ResultOfOperation(hreq, o)
      ELSE /\ hops = <<>>
           /\ hresult.status = STATUS_SUCCESS

C37_Witness ==
  /\ Resolved("TRANS2_SET_FILE_INFORMATION")
  /\ hreq.level = "FILE_ALLOCATION_INFORMATION"
  /\ hreq.allocZero /\ ~hreq.sizeZero
  /\ hpc = "done"
  /\ hresult.status = STATUS_ACCESS_DENIED

\* the params of the command after the dispatcher took the result of its
\* handler: a message of the one command, whose handler continues with result
CommittedParams(result) ==
  LET mr == [NewMsg(<<"handled">>, STATUS_SUCCESS, TRUE)
               EXCEPT !.pc = "running", !.inflight = {1}, !.started = <<1>>]
      r  == [status |-> result.status, params |-> result.params,
             data |-> result.data, wordCount |-> "none", byteCount |-> "none"]
  IN HandlerContinuation(mr, 1, r).resp[1].commands[1].params

----------------------------------------------------------------------------
(* Properties of DELETE *)

\* the outcomes of file.delete that were errors, in the order reported
DeleteErrors == SelectSeq(heach.outcomes, LAMBDA o : o # "ok")

\* C39: DELETE invokes its continuation exactly once for any number of matched
\* files and any outcomes of their deletes: STATUS_NO_SUCH_FILE when nothing
\* matched, STATUS_SUCCESS only if every delete succeeded, and otherwise the
\* status of the first error reported (STATUS_UNSUCCESSFUL if it has none);
\* later errors change neither the result nor the number of calls.
C39_DeleteAnswersOnce ==
  (hreq.handler = "DELETE" /\ hreq.tidOk) =>
    /\ hconts <= 1
    /\ hpc = "done" => hconts = 1
    /\ hpc = "each" => heach.pending > 0 /\ DeleteErrors = <<>>
    /\ (hpc = "done" /\ hops = <<"tree.list">>) =>
         hresult \in {ErrorResult(STATUS_NO_SUCH_FILE), ErrorResult(STATUS_ACCESS_DENIED),
                      ErrorResult(STATUS_UNSUCCESSFUL)}
    /\ (hpc = "done" /\ hops # <<"tree.list">>) =>
         IF DeleteErrors = <<>>
           THEN heach.pending = 0 /\ hresult = ErrorResult(STATUS_SUCCESS)
           ELSE hresult = ErrorResult(StatusOfError(DeleteErrors[1]))

\* two files matched; the first delete failed without a status, the second
\* with one: the one answer is STATUS_UNSUCCESSFUL
C39_Witness ==
  /\ hreq.handler = "DELETE"
  /\ hpc = "done"
  /\ heach.outcomes = <<"err_nostatus", "err_status">>
  /\ hresult.status = STATUS_UNSUCCESSFUL
  /\ hconts = 1

----------------------------------------------------------------------------
(* Properties of expandKey *)

\* bit n (0 the most significant, 55 the last) of a 7-byte key read as a
\* big-endian bit string
KeyBit(k, n) == (k[(n \div 8) + 1] \div Pow2(7 - (n % 8))) % 2

\* the 7-byte key number h of the hash grown to 21 bytes
KeyHalf(h) ==
  [i \in 1..7 |-> IF 7 * (h - 1) + i <= 16 THEN ntlm.hash[7 * (h - 1) + i] ELSE 0]

====
